---------------------------- MODULE Spec2Model ----------------------------
(***************************************************************************)
(* RAG demo: the in-memory VectorStore with its snapshot file, the         *)
(* embedding-based server's /upload-pdf and /ask handlers, queryRAG,       *)
(* similaritySearch and parseResponse.                                     *)
(*                                                                         *)
(* JavaScript runs one turn of the event loop at a time: an action of this *)
(* model is one turn, from the completion of an awaited operation to the   *)
(* next await.  File-system operations happen outside the event loop and   *)
(* are actions of their own (FsWriteCompletes, LoadRead).                  *)
(***************************************************************************)
EXTENDS Integers, Sequences, FiniteSets, TLC

(* ------------------------------ bounds -------------------------------- *)
\* number of requests (uploads and questions) in one behaviour
MaxRequests == 2
\* number of process restarts in one behaviour
MaxRestarts == 1

(* --------------------------- small values ----------------------------- *)
\* null, a missing file (ENOENT) and an incompletely read text
Null == [kind |-> "null"]
NoFile == [kind |-> "ENOENT"]
Torn == [kind |-> "torn"]

Min(a, b) == IF a < b THEN a ELSE b

\* Math.ceil(text.length / 4)
EstimateTokens(text) == (Len(text) + 3) \div 4

(* ------------------------ the uploaded PDFs --------------------------- *)
\* The raw page chunks the extraction and splitting steps yield for a PDF:
\* two chunks on two pages, one chunk, and a PDF without any text.
PDFs == {"A.pdf", "B.pdf", "E.pdf"}
NoPdf == "nofile"

RawChunksOf(pdf) ==
  CASE pdf = "A.pdf" -> << [pageNumber |-> 1, text |-> <<"a", "x">>],
                           [pageNumber |-> 2, text |-> <<"a", "y">>] >>
    [] pdf = "B.pdf" -> << [pageNumber |-> 1, text |-> <<"b">>] >>
    [] OTHER -> << >>

NumPagesOf(pdf) ==
  CASE pdf = "A.pdf" -> 2
    [] pdf = "B.pdf" -> 1
    [] OTHER -> 1

CreateChunkObjectsMutantZeroBased(raw) ==
  [i \in 1..Len(raw) |->
     [chunkId |-> <<"chunk_", i - 1>>,
      pageNumber |-> [num |-> raw[i].pageNumber],
      text |-> raw[i].text,
      tokenCount |-> EstimateTokens(raw[i].text)]]

\* createChunkObjects: the k-th raw chunk becomes chunk_k
CreateChunkObjects(raw) ==
  [i \in 1..Len(raw) |->
     [chunkId |-> <<"chunk_", i>>,
      pageNumber |-> [num |-> raw[i].pageNumber],
      text |-> raw[i].text,
      tokenCount |-> EstimateTokens(raw[i].text)]]

(* --------------------------- the embedder ----------------------------- *)
\* The embedding model, a deterministic map from a text to a vector of a
\* fixed length.
EmbedOf(text) ==
  CASE Len(text) > 0 /\ (\A j \in 1..Len(text) : text[j] = "t") -> <<Len(text), 1>>
    [] text = <<"a", "x">> -> <<1, 0>>
    [] text = <<"a", "y">> -> <<0, 1>>
    [] text = <<"b">> -> <<1, 1>>
    [] text = <<"q", "1">> -> <<2, 1>>
    [] text = <<"q", "2">> -> <<1, 1>>
    [] OTHER -> <<0, 0>>

\* What generateEmbeddings resolves to for the chunk texts: one vector per
\* text, in order ("ok"), or a list that lacks the last vector ("short": the
\* embedder answered a batch with fewer vectors than texts).
EmbeddingsFor(chunks, outcome) ==
  LET all == [i \in 1..Len(chunks) |-> EmbedOf(chunks[i].text)]
  IN IF outcome = "short" /\ Len(chunks) > 0
       THEN SubSeq(all, 1, Len(chunks) - 1)
       ELSE all

(* ------------------------- the snapshot file -------------------------- *)
\* JSON.stringify({documents, embeddings}): a chunk is written field by
\* field, a vector number by number.
ChunkToJSON(c) ==
  [chunkId |-> c.chunkId, pageNumber |-> c.pageNumber, text |-> c.text,
   tokenCount |-> c.tokenCount]

StringifyMutantNoEmbeddings(docs, embs) ==
  [kind |-> "json",
   documents |-> [i \in 1..Len(docs) |-> ChunkToJSON(docs[i])]]

Stringify(docs, embs) ==
  [kind |-> "json",
   documents |-> [i \in 1..Len(docs) |-> ChunkToJSON(docs[i])],
   embeddings |-> [i \in 1..Len(embs) |-> [j \in 1..Len(embs[i]) |-> embs[i][j]]]]

\* JSON.parse, then data.documents || [] and data.embeddings || []: a field
\* the text lacks reads as undefined and gives the empty list
ParsedDocuments(text) ==
  IF "documents" \in DOMAIN text THEN text.documents ELSE << >>
ParsedEmbeddings(text) ==
  IF "embeddings" \in DOMAIN text THEN text.embeddings ELSE << >>

(* ------------------------- cosineSimilarity --------------------------- *)
RECURSIVE Dot(_, _)
\* the accumulation loop of cosineSimilarity: sum of a[i] * b[i]
Dot(a, b) ==
  IF Len(a) = 0 \/ Len(b) = 0 THEN 0
  ELSE Head(a) * Head(b) + Dot(Tail(a), Tail(b))

RECURSIVE Gcd(_, _)
Gcd(m, n) == IF n = 0 THEN m ELSE Gcd(n, m % n)

Sign(x) == IF x > 0 THEN 1 ELSE IF x < 0 THEN -1 ELSE 0

SimZero == [sgn |-> 0, num |-> 0, den |-> 1]

\* cosineSimilarity(vecA, vecB) for vectors of one length, in exact
\* arithmetic: the value dot / (|a| |b|) is kept as its sign and the reduced
\* fraction num / den of its square; 0 when either norm is 0.
CosineSimilarity(a, b) ==
  LET dot == Dot(a, b)
      na == Dot(a, a)
      nb == Dot(b, b)
      g == Gcd(dot * dot, na * nb)
  IN IF na = 0 \/ nb = 0 \/ dot = 0
       THEN SimZero
       ELSE [sgn |-> Sign(dot), num |-> (dot * dot) \div g, den |-> (na * nb) \div g]

\* cosineSimilarity throws when the lengths differ
CosineThrows(a, b) == Len(a) # Len(b)

\* x < y for two similarities (t |-> sign(t) t^2 is increasing)
SimLess(x, y) == x.sgn * x.num * y.den < y.sgn * y.num * x.den

\* the comparator (a, b) => b.similarity - a.similarity, by its sign
Compare(a, b) ==
  IF SimLess(a.similarity, b.similarity) THEN 1
  ELSE IF SimLess(b.similarity, a.similarity) THEN -1 ELSE 0

RECURSIVE InsertMutantUnstable(_, _)
InsertMutantUnstable(sorted, x) ==
  IF Len(sorted) = 0 THEN <<x>>
  ELSE IF Compare(Head(sorted), x) >= 0 THEN <<x>> \o sorted
  ELSE <<Head(sorted)>> \o InsertMutantUnstable(Tail(sorted), x)

RECURSIVE Insert(_, _)
\* x is placed behind every element that does not sort after it
Insert(sorted, x) ==
  IF Len(sorted) = 0 THEN <<x>>
  ELSE IF Compare(Head(sorted), x) > 0 THEN <<x>> \o sorted
  ELSE <<Head(sorted)>> \o Insert(Tail(sorted), x)

RECURSIVE SortedUpTo(_, _)
SortedUpTo(s, n) == IF n = 0 THEN << >> ELSE Insert(SortedUpTo(s, n - 1), s[n])

\* Array.prototype.sort with the comparator: a stable sort
Sort(s) == SortedUpTo(s, Len(s))

SliceMutantOffByOne(s, k) == SubSeq(s, 1, Min(k + 1, Len(s)))

\* scores.slice(0, topK) for topK >= 0
Slice(s, k) == SubSeq(s, 1, Min(k, Len(s)))

\* the scores of similaritySearch before they are sorted
Scores(docs, embs, q) ==
  [i \in 1..Len(embs) |-> [chunk |-> docs[i], similarity |-> CosineSimilarity(q, embs[i])]]

\* similaritySearch throws what cosineSimilarity throws
SearchThrows(docs, embs, q) ==
  /\ Len(docs) # 0
  /\ \E i \in 1..Len(embs) : CosineThrows(q, embs[i])

\* similaritySearch(queryEmbedding, topK)
SimilaritySearch(docs, embs, q, topK) ==
  IF Len(docs) = 0 THEN << >>
  ELSE Slice(Sort(Scores(docs, embs, q)), topK)

\* the topK the /ask handler passes to queryRAG
AskTopK == 5

(* --------------------------- parseResponse ---------------------------- *)
\* substring(0, 100)
PreviewLen == 100

Ellipsis == <<".", ".", ".">>

PreviewMutantWholeText(text) == text \o Ellipsis

\* text.substring(0, 100) + '...'
Preview(text) == SubSeq(text, 1, Min(PreviewLen, Len(text))) \o Ellipsis

\* A model response, as parseResponse reads it: whether it has an "Answer:"
\* header, whether it has a "Citations:" header, and the lines that follow
\* that header.  A line is blank, holds a marker [C<n> | Page <page>] (the
\* first one of the line), or holds no marker.
BlankLine == [k |-> "blank"]
JunkLine == [k |-> "junk"]
MarkerLine(n, page) == [k |-> "marker", n |-> n, page |-> page]

\* chunk.pageNumber || 'N/A'
PageOrNA(pageNumber) ==
  IF pageNumber = Null \/ pageNumber = [num |-> 0] THEN [str |-> "N/A"] ELSE pageNumber

CitationOfLineMutantZeroBased(line, chunks) ==
  IF line.k = "marker" /\ line.n >= 0 /\ line.n < Len(chunks)
    THEN <<[chunkId |-> chunks[line.n + 1].chunkId,
            pageNumber |-> [str |-> line.page],
            text |-> Preview(chunks[line.n + 1].text)]>>
    ELSE << >>

\* the map callback over the citation lines: the citation of a line whose
\* marker names a retrieved chunk, nothing (null) otherwise
CitationOfLine(line, chunks) ==
  IF line.k = "marker" /\ line.n - 1 >= 0 /\ line.n - 1 < Len(chunks)
    THEN <<[chunkId |-> chunks[line.n].chunkId,
            pageNumber |-> [str |-> line.page],
            text |-> Preview(chunks[line.n].text)]>>
    ELSE << >>

RECURSIVE ParsedCitations(_, _)
\* split('\n').filter(line => line.trim()).map(...).filter(c => c !== null)
ParsedCitations(lines, chunks) ==
  IF Len(lines) = 0 THEN << >>
  ELSE (IF Head(lines).k = "blank" THEN << >> ELSE CitationOfLine(Head(lines), chunks))
       \o ParsedCitations(Tail(lines), chunks)

FallbackCitationsMutantNone(chunks) == << >>

\* the citations built from the retrieved chunks when none was parsed
FallbackCitations(chunks) ==
  [i \in 1..Len(chunks) |->
     [chunkId |-> chunks[i].chunkId,
      pageNumber |-> PageOrNA(chunks[i].pageNumber),
      text |-> Preview(chunks[i].text)]]

UseFallbackMutantNever(citations) == FALSE

\* if (citations.length === 0)
UseFallback(citations) == Len(citations) = 0

\* parseResponse(responseText, chunks)
ParseResponse(response, chunks) ==
  LET parsed == IF response.hasCitations
                  THEN ParsedCitations(response.lines, chunks)
                  ELSE << >>
  IN [answer |-> IF response.hasAnswer THEN response.answer ELSE <<"raw">> \o response.answer,
      citations |-> IF UseFallback(parsed) THEN FallbackCitations(chunks) ELSE parsed]

(* ---------------------------- VectorStore ----------------------------- *)
\* size()
Size(docs) == Len(docs)

IsEmptyMutantNever(docs) == FALSE

\* isEmpty()
IsEmpty(docs) == Len(docs) = 0

LengthsMismatchMutantNoCheck(chunks, embs) == FALSE

\* the guard of addDocuments
LengthsMismatch(chunks, embs) == Len(chunks) # Len(embs)

(* -------------------------- generateEmbedding -------------------------- *)
\* maxRetries = 3
DefaultMaxRetries == 3

\* What a request to the API can fail with: an error whose status is 429,
\* and any other error.
ApiErrors == {"RateLimited", "ServerError"}

\* error.status === 429
IsRateLimitError(error) == error = "RateLimited"

WaitTimeMutantLinear(attempt) == (attempt + 1) * 1000

\* Math.pow(2, attempt) * 1000
WaitTime(attempt) == (2 ^ attempt) * 1000

\* A call of generateEmbedding: the attempt of its loop, the requests it has
\* issued, the times it has slept, the last error caught, and what it
\* returned.
EmbIdle ==
  [pc |-> "idle", caller |-> "none", text |-> << >>, maxRetries |-> 0,
   attempt |-> 0, requests |-> 0, waits |-> << >>, error |-> "none",
   out |-> << >>]

\* the call runs up to its first await: attempt 0 issues a request
EmbStart(caller, text, maxRetries) ==
  [EmbIdle EXCEPT !.pc = "request", !.caller = caller, !.text = text,
                  !.maxRetries = maxRetries, !.requests = 1]

\* the call throws before any request: the client was never initialized
EmbNotInitialized(caller, text, maxRetries) ==
  [EmbIdle EXCEPT !.pc = "thrown", !.caller = caller, !.text = text,
                  !.maxRetries = maxRetries, !.error = "NotInitialized"]

\* if (isRateLimitError && attempt < maxRetries)
Retries(e, error) == IsRateLimitError(error) /\ e.attempt < e.maxRetries

\* the catch block when it retries: the wait is chosen and sleep is awaited
EmbBackoff(e, error) ==
  [e EXCEPT !.pc = "sleep", !.error = error,
            !.waits = Append(@, WaitTime(e.attempt))]

\* sleep has ended: continue, attempt++, and the next request is issued
EmbNextAttempt(e) ==
  [e EXCEPT !.pc = "request", !.attempt = @ + 1, !.requests = @ + 1]

EmbReturnMutantCached(e) == [e EXCEPT !.pc = "returned", !.out = EmbedOf(<<"q", "1">>)]

\* return response.data[0].embedding
EmbReturn(e) == [e EXCEPT !.pc = "returned", !.out = EmbedOf(e.text)]

\* throw error
EmbThrow(e, error) == [e EXCEPT !.pc = "thrown", !.error = error]

\* How the request in flight can end the call: with the vector, or with an
\* error that the catch block does not retry.
EmbEndings(e) ==
  {EmbReturn(e)} \cup {EmbThrow(e, error) : error \in {x \in ApiErrors : ~Retries(e, x)}}

(* ------------------------- generateEmbeddings ------------------------- *)
BATCH_SIZE == 20
DELAY_BETWEEN_BATCHES == 500

BatchAtMutantOneMore(texts, i) == SubSeq(texts, i + 1, Min(i + BATCH_SIZE + 1, Len(texts)))

\* texts.slice(i, i + BATCH_SIZE), for the 0-based i of the loop
BatchAt(texts, i) == SubSeq(texts, i + 1, Min(i + BATCH_SIZE, Len(texts)))

\* response.data of a batch request: one item per text of the batch, each
\* with the index of its text in the batch, in the order given by the
\* permutation order.
ResponseData(batch, order) ==
  [j \in 1..Len(batch) |->
     [index |-> order[j] - 1, embedding |-> EmbedOf(batch[order[j]])]]

\* The orders in which the API may list the items: as asked, reversed, and
\* rotated by one.
ResponseOrders(k) ==
  { [j \in 1..k |-> j],
    [j \in 1..k |-> k + 1 - j],
    [j \in 1..k |-> (j % k) + 1] }

InsertByIndexMutantKeepOrder(sorted, item) == Append(sorted, item)

\* the place sort((a, b) => a.index - b.index) gives an item among items
\* already sorted: behind every item whose index is not greater
InsertByIndex(sorted, item) ==
  LET before == {j \in 1..Len(sorted) : sorted[j].index <= item.index}
      k == Cardinality(before)
  IN SubSeq(sorted, 1, k) \o <<item>> \o SubSeq(sorted, k + 1, Len(sorted))

RECURSIVE SortByIndexUpTo(_, _)
SortByIndexUpTo(data, n) ==
  IF n = 0 THEN << >> ELSE InsertByIndex(SortByIndexUpTo(data, n - 1), data[n])

\* response.data.sort((a, b) => a.index - b.index).map(item => item.embedding)
BatchEmbeddings(data) ==
  LET sorted == SortByIndexUpTo(data, Len(data))
  IN [j \in 1..Len(sorted) |-> sorted[j].embedding]

\* A call of generateEmbeddings: the 0-based start i of the batch in
\* progress, the vectors pushed so far, the batch requests issued, the
\* batches that fell back to single requests, the delays awaited and the
\* length of the last one, and the error thrown.
BatIdle ==
  [pc |-> "idle", texts |-> << >>, i |-> 0, embeddings |-> << >>,
   batchReqs |-> 0, fallbacks |-> 0, delays |-> 0, waited |-> 0,
   error |-> "none"]

\* the batch at i is requested
BatRequest(b, i) == [b EXCEPT !.pc = "batch", !.i = i, !.batchReqs = @ + 1]

\* The end of an iteration: the delay is awaited if a batch follows, and
\* otherwise the loop ends and the embeddings are returned.
BatAfterBatch(b) ==
  IF b.i + BATCH_SIZE < Len(b.texts)
    THEN [b EXCEPT !.pc = "delay", !.delays = @ + 1, !.waited = DELAY_BETWEEN_BATCHES]
    ELSE [b EXCEPT !.pc = "returned"]

(* ------------------ createChunks (paragraph chunker) ------------------ *)
\* A text is a sequence of characters: letters, spaces and newlines.
NL == "\n"
IsSpace(c) == c \in {" ", NL}

Max(a, b) == IF a >= b THEN a ELSE b

\* the last position of the run of newlines that starts at pos
RECURSIVE RunEnd(_, _)
RunEnd(text, pos) ==
  IF pos < Len(text) /\ text[pos + 1] = NL THEN RunEnd(text, pos + 1) ELSE pos

\* text.split(/\n\n+/) from position pos on, cur being the characters of
\* the paragraph read so far
RECURSIVE SplitFrom(_, _, _)
SplitFrom(text, pos, cur) ==
  IF pos > Len(text) THEN <<cur>>
  ELSE IF text[pos] = NL /\ pos < Len(text) /\ text[pos + 1] = NL
    THEN <<cur>> \o SplitFrom(text, RunEnd(text, pos) + 1, << >>)
    ELSE SplitFrom(text, pos + 1, Append(cur, text[pos]))

\* text.split(/\n\n+/)
SplitParagraphs(text) == SplitFrom(text, 1, << >>)

RECURSIVE TrimStart(_)
TrimStart(s) == IF Len(s) > 0 /\ IsSpace(s[1]) THEN TrimStart(Tail(s)) ELSE s

RECURSIVE TrimEnd(_)
TrimEnd(s) ==
  IF Len(s) > 0 /\ IsSpace(s[Len(s)]) THEN TrimEnd(SubSeq(s, 1, Len(s) - 1)) ELSE s

\* s.trim()
Trim(s) == TrimEnd(TrimStart(s))

\* text.includes(p): p occurs in text as a run of consecutive characters
IsSubstringOf(p, text) ==
  \E i \in 0..(Len(text) - Len(p)) : SubSeq(text, i + 1, i + Len(p)) = p

SubstringFromMutantOffByOne(s, from) == SubSeq(s, from + 2, Len(s))

\* s.substring(from), for 0 <= from
SubstringFrom(s, from) == SubSeq(s, from + 1, Len(s))

\* the object pushed for the current chunk
ChunkOf(st) ==
  [id |-> <<"chunk_", st.id>>, text |-> Trim(st.currentChunk),
   start |-> st.currentStart, end |-> st.currentStart + Len(st.currentChunk)]

\* One iteration of the loop over the paragraphs.  sealed records the buffer
\* (currentChunk, before trim()) each pushed chunk was made of.
ChunkStep(st, paragraph, chunkSize, overlap) ==
  IF Len(st.currentChunk) + Len(paragraph) > chunkSize /\ Len(st.currentChunk) > 0
    THEN LET overlapStart == Max(0, Len(st.currentChunk) - overlap)
             seeded == SubstringFrom(st.currentChunk, overlapStart)
                         \o <<NL, NL>> \o paragraph
         IN [chunks |-> Append(st.chunks, ChunkOf(st)),
             sealed |-> Append(st.sealed, st.currentChunk),
             id |-> st.id + 1,
             currentChunk |-> seeded,
             currentStart |-> st.currentStart + Len(seeded) - overlap - Len(paragraph)]
    ELSE [st EXCEPT !.currentChunk =
            @ \o (IF Len(@) > 0 THEN <<NL, NL>> ELSE << >>) \o paragraph]

RECURSIVE ChunkLoop(_, _, _, _, _)
\* the loop over paragraphs[k..]
ChunkLoop(st, paragraphs, k, chunkSize, overlap) ==
  IF k > Len(paragraphs) THEN st
  ELSE ChunkLoop(ChunkStep(st, paragraphs[k], chunkSize, overlap),
                 paragraphs, k + 1, chunkSize, overlap)

\* createChunks(text, chunkSize, overlap) up to the end of the loop
ChunkLoopEnd(text, chunkSize, overlap) ==
  ChunkLoop([chunks |-> << >>, sealed |-> << >>, id |-> 1,
             currentChunk |-> << >>, currentStart |-> 0],
            SplitParagraphs(text), 1, chunkSize, overlap)

\* createChunks(text, chunkSize, overlap)
CreateChunks(text, chunkSize, overlap) ==
  LET st == ChunkLoopEnd(text, chunkSize, overlap)
  IN IF Len(Trim(st.currentChunk)) > 0
       THEN Append(st.chunks, ChunkOf(st))
       ELSE st.chunks

\* the buffers the chunks of createChunks(text, chunkSize, overlap) were
\* made of, one per chunk
SealedBuffers(text, chunkSize, overlap) ==
  LET st == ChunkLoopEnd(text, chunkSize, overlap)
  IN IF Len(Trim(st.currentChunk)) > 0
       THEN Append(st.sealed, st.currentChunk)
       ELSE st.sealed

ChkIdle ==
  [pc |-> "idle", text |-> << >>, chunkSize |-> 0, overlap |-> 0, out |-> << >>,
   sealed |-> << >>]

(* ---------------- splitTextIntoChunks (token chunker) ------------------ *)
\* the characters searched on each side of endIndex for a sentence boundary
SentenceWindow == 200

\* the last position of the run of whitespace that starts at pos
RECURSIVE SpaceRunEnd(_, _)
SpaceRunEnd(text, pos) ==
  IF pos < Len(text) /\ IsSpace(text[pos + 1]) THEN SpaceRunEnd(text, pos + 1) ELSE pos

\* text.replace(/\s+/g, ' ') from position pos on
RECURSIVE CollapseFrom(_, _)
CollapseFrom(text, pos) ==
  IF pos > Len(text) THEN << >>
  ELSE IF IsSpace(text[pos])
    THEN <<" ">> \o CollapseFrom(text, SpaceRunEnd(text, pos) + 1)
    ELSE <<text[pos]>> \o CollapseFrom(text, pos + 1)

\* text.replace(/\s+/g, ' ').trim()
CleanText(text) == Trim(CollapseFrom(text, 1))

\* s.substring(from, to): both indexes are clamped to 0..s.length and swapped
\* when from > to
Substring(s, from, to) ==
  LET x == Max(0, Min(from, Len(s)))
      y == Max(0, Min(to, Len(s)))
  IN SubSeq(s, Min(x, y) + 1, Max(x, y))

\* the indexes (from 0) at which /[.!?]\s/ matches in s
SentenceEnds(s) ==
  { i \in 0..(Len(s) - 2) : s[i + 1] \in {".", "!", "?"} /\ IsSpace(s[i + 2]) }

\* s.match(/[.!?]\s/): the index of the first match, or Null
SentenceEndMatch(s) ==
  IF SentenceEnds(s) = {} THEN Null
  ELSE [index |-> CHOOSE i \in SentenceEnds(s) : \A j \in SentenceEnds(s) : i <= j]

\* endIndex of one iteration, the sentence boundary applied
EndIndexOf(cleanText, startIndex, chunkChars) ==
  LET endIndex == Min(startIndex + chunkChars, Len(cleanText))
      sentenceEnd == SentenceEndMatch(Substring(cleanText, endIndex - SentenceWindow,
                                                endIndex + SentenceWindow))
  IN IF endIndex < Len(cleanText) /\ sentenceEnd # Null
       THEN endIndex - SentenceWindow + sentenceEnd.index + 1
       ELSE endIndex

\* 'startIndex <= chunks.length > 0 ? chunks[chunks.length - 1].length : 0'
\* is read as '((startIndex <= chunks.length) > 0) ? ... : 0': the test is
\* startIndex <= chunks.length; chunks[-1].length is a TypeError when chunks
\* is empty, and the length of a pushed chunk is never 0.
GuardThrows(startIndex, chunks) == startIndex <= Len(chunks) /\ Len(chunks) = 0

PreventInfiniteLoop(startIndex, chunks) ==
  startIndex <= Len(chunks) /\ Len(chunks[Len(chunks)]) > 0

SplIdle ==
  [pc |-> "idle", text |-> << >>, cleanText |-> << >>, chunkChars |-> 0,
   overlapChars |-> 0, startIndex |-> 0, chunks |-> << >>, ranges |-> << >>]

\* splitTextIntoChunks(text, chunkSize, overlap) up to the while loop
SplitStart(text, chunkSize, overlap) ==
  [pc |-> IF 0 < Len(CleanText(text)) THEN "loop" ELSE "returned",
   text |-> text, cleanText |-> CleanText(text), chunkChars |-> chunkSize * 4,
   overlapChars |-> overlap * 4, startIndex |-> 0, chunks |-> << >>,
   ranges |-> << >>]

\* One iteration of the while loop.  ranges records the startIndex and
\* endIndex each pushed chunk was cut at.
SplitStep(st) ==
  LET endIndex == EndIndexOf(st.cleanText, st.startIndex, st.chunkChars)
      chunk == Trim(Substring(st.cleanText, st.startIndex, endIndex))
      chunks == IF Len(chunk) > 0 THEN Append(st.chunks, chunk) ELSE st.chunks
      ranges == IF Len(chunk) > 0
                  THEN Append(st.ranges, <<st.startIndex, endIndex>>)
                  ELSE st.ranges
      moved == endIndex - st.overlapChars
  IN IF GuardThrows(moved, chunks)
       THEN [st EXCEPT !.pc = "thrown", !.chunks = chunks, !.ranges = ranges,
                       !.startIndex = moved]
       ELSE LET startIndex == IF PreventInfiniteLoop(moved, chunks)
                                THEN endIndex ELSE moved
            IN [st EXCEPT !.pc = IF startIndex < Len(st.cleanText)
                                   THEN "loop" ELSE "returned",
                          !.chunks = chunks, !.ranges = ranges,
                          !.startIndex = startIndex]

RECURSIVE SplitLoop(_)
SplitLoop(st) == IF st.pc = "loop" THEN SplitLoop(SplitStep(st)) ELSE st

\* splitTextIntoChunks(text, chunkSize, overlap): the state it ends in
SplitTextIntoChunks(text, chunkSize, overlap) ==
  SplitLoop(SplitStart(text, chunkSize, overlap))

\* splitPagedTextIntoChunks from page k on, allChunks being the chunks
\* pushed for the pages before; thrown when splitTextIntoChunks throws
RECURSIVE SplitPagesFrom(_, _, _, _, _)
SplitPagesFrom(pages, k, chunkSize, overlap, allChunks) ==
  IF k > Len(pages) THEN [thrown |-> FALSE, allChunks |-> allChunks]
  ELSE IF Len(Trim(pages[k].text)) = 0
    THEN SplitPagesFrom(pages, k + 1, chunkSize, overlap, allChunks)
    ELSE LET pageChunks == SplitTextIntoChunks(pages[k].text, chunkSize, overlap)
         IN IF pageChunks.pc = "thrown"
              THEN [thrown |-> TRUE, allChunks |-> allChunks]
              ELSE SplitPagesFrom(pages, k + 1, chunkSize, overlap,
                     allChunks \o [c \in 1..Len(pageChunks.chunks) |->
                                     [pageNumber |-> pages[k].pageNumber,
                                      text |-> pageChunks.chunks[c]]])

\* splitPagedTextIntoChunks(pages, chunkSize, overlap)
SplitPagedTextIntoChunks(pages, chunkSize, overlap) ==
  SplitPagesFrom(pages, 1, chunkSize, overlap, << >>)

PagIdle ==
  [pc |-> "idle", pages |-> << >>, chunkSize |-> 0, overlap |-> 0, out |-> << >>]

(* ---------------- findRelevantChunks (lexical retriever) --------------- *)
\* s.toLowerCase(), for the letters of the model
ToLowerCase(s) ==
  [j \in 1..Len(s) |-> IF s[j] = "A" THEN "a" ELSE IF s[j] = "B" THEN "b" ELSE s[j]]

\* s.split(/\s+/) from position pos on, cur being the word read so far
RECURSIVE WordsFrom(_, _, _)
WordsFrom(s, pos, cur) ==
  IF pos > Len(s) THEN <<cur>>
  ELSE IF IsSpace(s[pos])
    THEN <<cur>> \o WordsFrom(s, SpaceRunEnd(s, pos) + 1, << >>)
    ELSE WordsFrom(s, pos + 1, Append(cur, s[pos]))

\* queryLower.split(/\s+/).filter(w => w.length > 3)
QueryWords(queryLower) ==
  SelectSeq(WordsFrom(queryLower, 1, << >>), LAMBDA w : Len(w) > 3)

\* the number of '?' that follow position k of a pattern
Quantifiers(word, k) ==
  IF k < Len(word) /\ word[k + 1] = "?"
    THEN IF k + 1 < Len(word) /\ word[k + 2] = "?" THEN 2 ELSE 1
    ELSE 0

\* new RegExp(word, 'g') throws a SyntaxError: a '(' that is never closed, or
\* a '?' with nothing to repeat (at the start, or third in a row)
RegExpThrows(word) ==
  \/ \E k \in 1..Len(word) : word[k] = "("
  \/ word[1] = "?"
  \/ \E k \in 1..(Len(word) - 2) : word[k] = "?" /\ word[k + 1] = "?" /\ word[k + 2] = "?"

\* The pattern word[k..] is matched against text at index pos (from 0): the
\* index the match ends at, or -1.  A letter matches itself, 'x?' matches x
\* or nothing (x first), 'x??' nothing or x (nothing first).
RECURSIVE MatchEnd(_, _, _, _)
MatchEnd(word, k, text, pos) ==
  IF k > Len(word) THEN pos
  ELSE LET q == Quantifiers(word, k)
           taken == IF pos < Len(text) /\ text[pos + 1] = word[k]
                      THEN MatchEnd(word, k + 1 + q, text, pos + 1) ELSE -1
           skipped == MatchEnd(word, k + 1 + q, text, pos)
       IN CASE q = 0 -> taken
            [] q = 1 -> IF taken # -1 THEN taken ELSE skipped
            [] OTHER -> IF skipped # -1 THEN skipped ELSE taken

\* (text.match(new RegExp(word, 'g')) || []).length, the search being at
\* index pos: matches do not overlap and an empty match moves on by one
RECURSIVE CountMatches(_, _, _)
CountMatches(word, text, pos) ==
  IF pos > Len(text) THEN 0
  ELSE LET e == MatchEnd(word, 1, text, pos)
       IN IF e = -1 THEN CountMatches(word, text, pos + 1)
          ELSE 1 + CountMatches(word, text, IF e > pos THEN e ELSE pos + 1)

RECURSIVE SumMatches(_, _, _)
\* the for loop over queryWords[k..]
SumMatches(queryWords, k, chunkLower) ==
  IF k > Len(queryWords) THEN 0
  ELSE CountMatches(queryWords[k], chunkLower, 0)
         + SumMatches(queryWords, k + 1, chunkLower)

FullQueryBonus == 10

\* the score given to one chunk
ScoreOf(chunk, query) ==
  SumMatches(QueryWords(ToLowerCase(query)), 1, ToLowerCase(chunk.text))
    + (IF IsSubstringOf(ToLowerCase(query), ToLowerCase(chunk.text))
         THEN FullQueryBonus ELSE 0)

\* the map over documentChunks throws when a query word is not a pattern
FindThrows(documentChunks, query) ==
  /\ Len(documentChunks) > 0
  /\ \E k \in 1..Len(QueryWords(ToLowerCase(query))) :
       RegExpThrows(QueryWords(ToLowerCase(query))[k])

\* scoredChunks.sort((a, b) => b.score - a.score): the sort is stable, so
\* element i comes after the elements of a higher score and those of the
\* same score before it
SortByScore(scored) ==
  LET n == Len(scored)
      rank(i) == 1 + Cardinality({ j \in 1..n :
                        \/ scored[j].score > scored[i].score
                        \/ scored[j].score = scored[i].score /\ j < i })
  IN [r \in 1..n |-> scored[CHOOSE i \in 1..n : rank(i) = r]]

\* findRelevantChunks(query, topK), when it does not throw
FindRelevantChunks(documentChunks, query, topK) ==
  LET scoredChunks == [i \in 1..Len(documentChunks) |->
                         [id |-> documentChunks[i].id, text |-> documentChunks[i].text,
                          score |-> ScoreOf(documentChunks[i], query), index |-> i]]
      sorted == SortByScore(scoredChunks)
  IN SubSeq(sorted, 1, Min(Max(topK, 0), Len(sorted)))

LexIdle ==
  [pc |-> "idle", documentChunks |-> << >>, query |-> << >>, topK |-> 0,
   out |-> << >>]

(* ------------------- the assistant-backed servers --------------------- *)
\* The module state of an assistant-backed server and of its backend: the
\* OpenAI assistants backend keeps four ids, the LiteLLM backend the chunks
\* of the document.  info is the server's currentPDFInfo.
SrvIdle(backend) ==
  [backend |-> backend, pc |-> "idle", req |-> "none", stage |-> 0,
   info |-> Null, resp |-> "none",
   hasFile |-> FALSE, hasVectorStore |-> FALSE, hasAssistant |-> FALSE,
   hasThread |-> FALSE, numChunks |-> 0, n |-> 0]
\* n: the requests and askAssistant calls made so far

\* isReady(); the client is initialized before the server listens
IsReady(s) ==
  IF s.backend = "openai" THEN s.hasAssistant /\ s.hasThread ELSE s.numChunks > 0

\* the assignments of cleanup()
ResetBackend(s) ==
  [s EXCEPT !.hasFile = FALSE, !.hasVectorStore = FALSE, !.hasAssistant = FALSE,
            !.hasThread = FALSE, !.numChunks = 0]

\* askAssistant of the OpenAI assistants backend
AssistantMaxRetries == 3
RateLimitWait == 20000

AaIdle ==
  [pc |-> "idle", retryCount |-> 0, messages |-> 0, runs |-> 0, waited |-> 0,
   out |-> "none"]

\* the catch block of askAssistant for an error with the given message
AaCatch(a, message) ==
  IF message = "rate_limit_exceeded" /\ a.retryCount < AssistantMaxRetries
    THEN [a EXCEPT !.pc = "sleep", !.retryCount = @ + 1, !.waited = @ + RateLimitWait]
    ELSE [a EXCEPT !.pc = "thrown", !.out = message]

VARIABLES
  documents,      \* vectorStore.documents
  embeddings,     \* vectorStore.embeddings
  file,           \* the content of vector_store.json, or NoFile
  currentPDFInfo, \* the server's currentPDFInfo
  ld,             \* the loadFromFile call started by the constructor
  up,             \* the /upload-pdf request in progress
  ask,            \* the question in progress
  embedReqs,      \* calls of generateEmbedding made for questions
  genReqs,        \* calls of generateAnswer made for questions
  nUploads, nAsks, nRestarts,
  srch,           \* a direct call of similaritySearch
  prs,            \* a direct call of parseResponse
  emb,            \* the generateEmbedding call in progress
  bat,            \* a direct call of generateEmbeddings
  chk,            \* a direct call of createChunks
  spl,            \* a direct call of splitTextIntoChunks
  pag,            \* a direct call of splitPagedTextIntoChunks and createChunkObjects
  lex,            \* a direct call of findRelevantChunks
  srv,            \* an assistant-backed server and its backend
  aa              \* a call of askAssistant (OpenAI assistants backend)

vars == <<documents, embeddings, file, currentPDFInfo, ld, up, ask,
          embedReqs, genReqs, nUploads, nAsks, nRestarts, srch, prs, emb, bat,
          chk, spl, pag, lex, srv, aa>>

(* ------------------------------ requests ------------------------------ *)
UpIdle ==
  [pc |-> "idle", pdf |-> NoPdf, chunks |-> << >>, embs |-> << >>,
   io |-> "none", wdata |-> Null, resp |-> "none",
   before |-> << << >>, << >> >>, quiet |-> FALSE,
   addThrew |-> FALSE, clearSaveFailed |-> FALSE, addSaveFailed |-> FALSE,
   unlinkFailed |-> FALSE]

NoResponse ==
  [status |-> "none", error |-> "none", details |-> "none",
   answer |-> << >>, citations |-> << >>, retrievedChunks |-> << >>]

\* direct: queryRAG is called by itself, not by the /ask handler.
\* seen: the store as each isEmpty() and similaritySearch() of the question
\* found it.  embedCalls, searches, generations: the calls of
\* generateEmbedding and of similaritySearch and the generation requests made
\* for the question; queryEmbedding: the vector given to similaritySearch;
\* raised, raisedBy: the error a request of the question failed with, and
\* which request.
AskIdle ==
  [pc |-> "idle", direct |-> FALSE, question |-> << >>, quiet |-> FALSE,
   seen |-> << >>, results |-> << >>, resp |-> NoResponse,
   embedCalls |-> 0, searches |-> 0, generations |-> 0,
   queryEmbedding |-> << >>,
   raised |-> "none", raisedBy |-> "none"]

SrchIdle == [pc |-> "idle", query |-> << >>, topK |-> 0, out |-> << >>]
PrsIdle == [pc |-> "idle", chunks |-> << >>, response |-> Null, out |-> Null]

\* The snapshot a previous process may have left on disk.
OldGeneration ==
  LET chunks == CreateChunkObjects(RawChunksOf("A.pdf"))
  IN <<chunks, EmbeddingsFor(chunks, "ok")>>

Init ==
  /\ documents = << >>
  /\ embeddings = << >>
  /\ file \in {NoFile, Stringify(OldGeneration[1], OldGeneration[2])}
  /\ currentPDFInfo = Null
  /\ ld = [pc |-> "access", data |-> Null]
  /\ up = UpIdle
  /\ ask = AskIdle
  /\ embedReqs = 0 /\ genReqs = 0
  /\ nUploads = 0 /\ nAsks = 0 /\ nRestarts = 0
  /\ srch = SrchIdle
  /\ prs = PrsIdle
  /\ emb = EmbIdle
  /\ bat = BatIdle
  /\ chk = ChkIdle
  /\ spl = SplIdle
  /\ pag = PagIdle
  /\ lex = LexIdle
  /\ srv = SrvIdle("openai")
  /\ aa = AaIdle

(* ------------------- VectorStore.loadFromFile ------------------------- *)
\* await fs.access(STORE_PATH): the file exists or not
LoadAccess ==
  /\ ld.pc = "access"
  /\ ld' = [ld EXCEPT !.pc = IF file = NoFile THEN "done" ELSE "read"]
  /\ UNCHANGED <<documents, embeddings, file, currentPDFInfo, up, ask,
                 embedReqs, genReqs, nUploads, nAsks, nRestarts, srch, prs, emb, bat, chk, spl, pag, lex, srv, aa>>

\* fs.readFile reads the file as it is now; while a write of the file is in
\* flight the text read may be incomplete.
LoadRead ==
  /\ ld.pc = "read"
  /\ \E text \in {file} \cup (IF up.io = "pending" THEN {Torn} ELSE {}) :
       ld' = [pc |-> "parse", data |-> text]
  /\ UNCHANGED <<documents, embeddings, file, currentPDFInfo, up, ask,
                 embedReqs, genReqs, nUploads, nAsks, nRestarts, srch, prs, emb, bat, chk, spl, pag, lex, srv, aa>>

\* JSON.parse of the text read and the two assignments; a text that does not
\* parse is logged and changes nothing.
LoadAssign ==
  /\ ld.pc = "parse"
  /\ IF ld.data \in {Torn, NoFile}
       THEN UNCHANGED <<documents, embeddings>>
       ELSE /\ documents' = ParsedDocuments(ld.data)
            /\ embeddings' = ParsedEmbeddings(ld.data)
  /\ ld' = [pc |-> "done", data |-> Null]
  /\ UNCHANGED <<file, currentPDFInfo, up, ask,
                 embedReqs, genReqs, nUploads, nAsks, nRestarts, srch, prs, emb, bat, chk, spl, pag, lex, srv, aa>>

(* ------------------------- POST /upload-pdf --------------------------- *)
\* The request arrives; without a file it is answered 400 at once, otherwise
\* loadPDFByPages is awaited.
UploadRequest ==
  /\ up.pc = "idle"
  /\ nUploads + nAsks < MaxRequests
  /\ nUploads' = nUploads + 1
  /\ \E pdf \in PDFs \cup {NoPdf} :
       up' = [UpIdle EXCEPT
                !.pc = IF pdf = NoPdf THEN "done" ELSE "load",
                !.pdf = pdf,
                !.resp = IF pdf = NoPdf THEN "err400" ELSE "none",
                !.before = <<documents, embeddings>>,
                !.quiet = (ld.pc = "done")]
  /\ UNCHANGED <<documents, embeddings, file, currentPDFInfo, ld, ask,
                 embedReqs, genReqs, nAsks, nRestarts, srch, prs, emb, bat, chk, spl, pag, lex, srv, aa>>

\* Steps 1 and 2: the text is extracted and split into chunk objects, and
\* generateEmbeddings is awaited; a failed extraction is answered 500.
UploadExtracted ==
  /\ up.pc = "load"
  /\ \E ok \in BOOLEAN :
       up' = IF ok
               THEN [up EXCEPT !.pc = "embed",
                               !.chunks = CreateChunkObjects(RawChunksOf(up.pdf))]
               ELSE [up EXCEPT !.pc = "done", !.resp = "err500"]
  /\ UNCHANGED <<documents, embeddings, file, currentPDFInfo, ld, ask,
                 embedReqs, genReqs, nUploads, nAsks, nRestarts, srch, prs, emb, bat, chk, spl, pag, lex, srv, aa>>

\* Step 3 ends.  A failure (of an embedding request, so only with chunks to
\* embed) is answered 500.  Otherwise step 4 starts with
\* vectorStore.clear(): both collections are emptied and the empty snapshot
\* is handed to fs.writeFile.
UploadEmbedded ==
  /\ up.pc = "embed"
  /\ \E outcome \in {"ok", "short"} \cup (IF Len(up.chunks) > 0 THEN {"fail"} ELSE {}) :
       IF outcome = "fail"
         THEN /\ up' = [up EXCEPT !.pc = "done", !.resp = "err500"]
              /\ UNCHANGED <<documents, embeddings>>
         ELSE /\ documents' = << >>
              /\ embeddings' = << >>
              /\ up' = [up EXCEPT !.pc = "clearSave",
                                  !.embs = EmbeddingsFor(up.chunks, outcome),
                                  !.io = "pending",
                                  !.wdata = Stringify(<< >>, << >>)]
  /\ UNCHANGED <<file, currentPDFInfo, ld, ask,
                 embedReqs, genReqs, nUploads, nAsks, nRestarts, srch, prs, emb, bat, chk, spl, pag, lex, srv, aa>>

\* fs.writeFile of saveToFile ends: the file holds the text handed over, or
\* the write failed and the file is as before.
FsWriteCompletes ==
  /\ up.io = "pending"
  /\ \E ok \in BOOLEAN :
       /\ file' = IF ok THEN up.wdata ELSE file
       /\ up' = [up EXCEPT
                   !.io = IF ok THEN "ok" ELSE "fail",
                   !.clearSaveFailed = IF up.pc = "clearSave" THEN ~ok ELSE @,
                   !.addSaveFailed = IF up.pc = "addSave" THEN ~ok ELSE @]
  /\ UNCHANGED <<documents, embeddings, currentPDFInfo, ld, ask,
                 embedReqs, genReqs, nUploads, nAsks, nRestarts, srch, prs, emb, bat, chk, spl, pag, lex, srv, aa>>

\* clear() has returned (a failed save is logged by saveToFile) and
\* addDocuments(chunks, embeddings) runs up to its await of saveToFile: it
\* throws on a length mismatch, which the handler answers 500, and otherwise
\* assigns both collections and hands the new snapshot to fs.writeFile.
UploadAddDocuments ==
  /\ up.pc = "clearSave"
  /\ up.io \in {"ok", "fail"}
  /\ IF LengthsMismatch(up.chunks, up.embs)
       THEN /\ up' = [up EXCEPT !.pc = "done", !.resp = "err500",
                                !.io = "none", !.addThrew = TRUE]
            /\ UNCHANGED <<documents, embeddings>>
       ELSE /\ documents' = up.chunks
            /\ embeddings' = up.embs
            /\ up' = [up EXCEPT !.pc = "addSave", !.io = "pending",
                                !.wdata = Stringify(up.chunks, up.embs)]
  /\ UNCHANGED <<file, currentPDFInfo, ld, ask,
                 embedReqs, genReqs, nUploads, nAsks, nRestarts, srch, prs, emb, bat, chk, spl, pag, lex, srv, aa>>

\* addDocuments has returned, whether its save succeeded or not:
\* currentPDFInfo is set and fs.unlink of the uploaded file is awaited.
UploadStored ==
  /\ up.pc = "addSave"
  /\ up.io \in {"ok", "fail"}
  /\ currentPDFInfo' = [filename |-> up.pdf, numPages |-> NumPagesOf(up.pdf),
                        numChunks |-> Len(up.chunks)]
  /\ up' = [up EXCEPT !.pc = "unlink", !.io = "none"]
  /\ UNCHANGED <<documents, embeddings, file, ld, ask,
                 embedReqs, genReqs, nUploads, nAsks, nRestarts, srch, prs, emb, bat, chk, spl, pag, lex, srv, aa>>

\* fs.unlink ends: success is answered 200, a failure 500.
UploadUnlinked ==
  /\ up.pc = "unlink"
  /\ \E ok \in BOOLEAN :
       up' = [up EXCEPT !.pc = "done",
                        !.resp = IF ok THEN "ok200" ELSE "err500",
                        !.unlinkFailed = ~ok]
  /\ UNCHANGED <<documents, embeddings, file, currentPDFInfo, ld, ask,
                 embedReqs, genReqs, nUploads, nAsks, nRestarts, srch, prs, emb, bat, chk, spl, pag, lex, srv, aa>>

\* The response has been sent; the next request may arrive.
UploadDone ==
  /\ up.pc = "done"
  /\ up' = UpIdle
  /\ UNCHANGED <<documents, embeddings, file, currentPDFInfo, ld, ask,
                 embedReqs, genReqs, nUploads, nAsks, nRestarts, srch, prs, emb, bat, chk, spl, pag, lex, srv, aa>>

(* ---------------------- generateEmbedding, steps ---------------------- *)
\* The request in flight fails with status 429 and retries are left: the
\* call sleeps 2^attempt seconds.
EmbedRateLimited ==
  /\ emb.pc = "request"
  /\ \E error \in ApiErrors :
       /\ Retries(emb, error)
       /\ emb' = EmbBackoff(emb, error)
  /\ UNCHANGED <<documents, embeddings, file, currentPDFInfo, ld, up, ask,
                 embedReqs, genReqs, nUploads, nAsks, nRestarts, srch, prs, bat, chk, spl, pag, lex, srv, aa>>

\* The sleep ends and the next attempt issues its request.
EmbedSleepEnds ==
  /\ emb.pc = "sleep"
  /\ emb' = EmbNextAttempt(emb)
  /\ UNCHANGED <<documents, embeddings, file, currentPDFInfo, ld, up, ask,
                 embedReqs, genReqs, nUploads, nAsks, nRestarts, srch, prs, bat, chk, spl, pag, lex, srv, aa>>

(* ----------------------- POST /ask and queryRAG ----------------------- *)
Questions == { <<"q", "1">>, <<" ">> }

\* question.trim().length > 0, for a string
QuestionValid(q) == \E i \in 1..Len(q) : q[i] # " "

\* What the generation model may answer with.
ServerResponses ==
  { [hasAnswer |-> TRUE, answer |-> <<"ok">>, hasCitations |-> FALSE, lines |-> << >>],
    [hasAnswer |-> TRUE, answer |-> <<"ok">>, hasCitations |-> TRUE,
     lines |-> <<MarkerLine(1, "1")>>],
    [hasAnswer |-> TRUE, answer |-> <<"ok">>, hasCitations |-> TRUE,
     lines |-> <<JunkLine, MarkerLine(0, "1"), MarkerLine(9, "1")>>] }

NoInfoAnswer == <<"No relevant information found in the document.">>

ErrorResponseMutantPartial(status, error) ==
  [NoResponse EXCEPT !.status = status, !.error = error, !.answer = <<"partial">>]

ErrorResponse(status, error) ==
  [NoResponse EXCEPT !.status = status, !.error = error]

\* An error caught by queryRAG is thrown again as it is; the /ask handler
\* answers 500 with a fixed error text and the message of the error.
AskFailure(direct, error) ==
  IF direct THEN ErrorResponse("thrown", error)
            ELSE [ErrorResponse("err500", "FailedToProcess") EXCEPT !.details = error]

\* The question arrives.  The /ask handler validates it and checks
\* vectorStore.isEmpty(); queryRAG checks isEmpty() again and then awaits
\* generateEmbedding(question).
AskRequest ==
  /\ ask.pc = "idle"
  /\ nUploads + nAsks < MaxRequests
  /\ nAsks' = nAsks + 1
  /\ \E q \in Questions, direct \in BOOLEAN :
       LET st == <<documents, embeddings>>
           new == [AskIdle EXCEPT !.direct = direct, !.question = q,
                                  !.quiet = (ld.pc = "done")]
       IN IF ~direct /\ ~QuestionValid(q)
            THEN /\ ask' = [new EXCEPT !.pc = "done",
                              !.resp = ErrorResponse("err400", "QuestionRequired")]
                 /\ UNCHANGED <<embedReqs, emb>>
            ELSE IF IsEmpty(documents)
              THEN /\ ask' = [new EXCEPT !.pc = "done", !.seen = <<st>>,
                                !.resp = ErrorResponse(IF direct THEN "thrown" ELSE "err400",
                                                       "NotReady")]
                   /\ UNCHANGED <<embedReqs, emb>>
              ELSE /\ ask' = [new EXCEPT !.pc = "embedQ", !.embedCalls = 1,
                                !.seen = IF direct THEN <<st>> ELSE <<st, st>>]
                   /\ embedReqs' = embedReqs + 1
                   /\ emb' = EmbStart("queryRAG", q, DefaultMaxRetries)
  /\ UNCHANGED <<documents, embeddings, file, currentPDFInfo, ld, up,
                 genReqs, nUploads, nRestarts, srch, prs, bat, chk, spl, pag, lex, srv, aa>>

\* generateEmbedding ends (its last request has ended) and queryRAG goes on
\* in the same turn.  An error is thrown again (the handler answers 500).
\* Otherwise similaritySearch runs on the store as it is now; an empty result
\* is answered at once, and otherwise generateAnswer issues its request.
AskEmbedded ==
  /\ ask.pc = "embedQ"
  /\ emb.pc = "request"
  /\ emb.caller = "queryRAG"
  /\ emb' = EmbIdle
  /\ \E e \in EmbEndings(emb) :
       IF e.pc = "thrown"
         THEN /\ ask' = [ask EXCEPT !.pc = "done",
                           !.raised = e.error, !.raisedBy = "embedding",
                           !.resp = AskFailure(ask.direct, e.error)]
              /\ UNCHANGED genReqs
         ELSE LET results == SimilaritySearch(documents, embeddings, e.out, AskTopK)
                  searched == [ask EXCEPT !.seen = Append(@, <<documents, embeddings>>),
                                          !.searches = @ + 1,
                                          !.queryEmbedding = e.out]
              IN IF Len(results) = 0
                   THEN /\ ask' = [searched EXCEPT !.pc = "done",
                                     !.resp = [NoResponse EXCEPT !.status = "ok",
                                                                 !.answer = NoInfoAnswer]]
                        /\ UNCHANGED genReqs
                   ELSE /\ ask' = [searched EXCEPT !.pc = "generate",
                                                   !.results = results,
                                                   !.generations = @ + 1]
                        /\ genReqs' = genReqs + 1
  /\ UNCHANGED <<documents, embeddings, file, currentPDFInfo, ld, up,
                 embedReqs, nUploads, nAsks, nRestarts, srch, prs, bat, chk, spl, pag, lex, srv, aa>>

\* The generation request ends.  generateAnswer and queryRAG throw its error
\* again; a response is parsed and returned with the retrieved chunks.
AskGenerated ==
  /\ ask.pc = "generate"
  /\ \/ \E error \in ApiErrors :
          ask' = [ask EXCEPT !.pc = "done",
                    !.raised = error, !.raisedBy = "generation",
                    !.resp = AskFailure(ask.direct, error)]
     \/ \E r \in ServerResponses :
          LET chunks == [i \in 1..Len(ask.results) |-> ask.results[i].chunk]
              parsed == ParseResponse(r, chunks)
          IN ask' = [ask EXCEPT !.pc = "done",
                       !.resp = [NoResponse EXCEPT
                                   !.status = "ok",
                                   !.answer = parsed.answer,
                                   !.citations = parsed.citations,
                                   !.retrievedChunks = ask.results]]
  /\ UNCHANGED <<documents, embeddings, file, currentPDFInfo, ld, up,
                 embedReqs, genReqs, nUploads, nAsks, nRestarts, srch, prs, emb, bat, chk, spl, pag, lex, srv, aa>>

\* The response has been sent.
AskDone ==
  /\ ask.pc = "done"
  /\ ask' = AskIdle
  /\ UNCHANGED <<documents, embeddings, file, currentPDFInfo, ld, up,
                 embedReqs, genReqs, nUploads, nAsks, nRestarts, srch, prs, emb, bat, chk, spl, pag, lex, srv, aa>>

(* --------------------------- process restart -------------------------- *)
\* The server process is started again while no request is in progress: the
\* module state is as constructed and the constructor starts loadFromFile.
Restart ==
  /\ up.pc = "idle"
  /\ ask.pc = "idle"
  /\ nRestarts < MaxRestarts
  /\ nRestarts' = nRestarts + 1
  /\ documents' = << >>
  /\ embeddings' = << >>
  /\ currentPDFInfo' = Null
  /\ ld' = [pc |-> "access", data |-> Null]
  /\ UNCHANGED <<file, up, ask, embedReqs, genReqs, nUploads, nAsks, srch, prs, emb, bat, chk, spl, pag, lex, srv, aa>>

Next ==
  \/ LoadAccess
  \/ LoadRead
  \/ LoadAssign
  \/ UploadRequest
  \/ UploadExtracted
  \/ UploadEmbedded
  \/ FsWriteCompletes
  \/ UploadAddDocuments
  \/ UploadStored
  \/ UploadUnlinked
  \/ UploadDone
  \/ AskRequest
  \/ EmbedRateLimited
  \/ EmbedSleepEnds
  \/ AskEmbedded
  \/ AskGenerated
  \/ AskDone
  \/ Restart

Spec == Init /\ [][Next]_vars

(* ------------------ similaritySearch called directly ------------------ *)
\* bounds of the stores and of topK
MaxStored == 3
MaxTopK == 5

\* Query and chunk vectors: the zero vector, vectors in one direction with
\* different lengths, orthogonal and opposite vectors.
TestVectors == { <<0, 0>>, <<1, 0>>, <<2, 0>>, <<0, 1>>, <<1, 1>>, <<-1, 0>>, <<1, 2>> }

TestChunks(n) ==
  [i \in 1..n |-> [chunkId |-> <<"chunk_", i>>, pageNumber |-> [num |-> i],
                   text |-> <<"t">>, tokenCount |-> 1]]

IdleServer ==
  /\ currentPDFInfo = Null
  /\ ld = [pc |-> "done", data |-> Null]
  /\ up = UpIdle
  /\ ask = AskIdle
  /\ embedReqs = 0 /\ genReqs = 0
  /\ nUploads = 0 /\ nAsks = 0 /\ nRestarts = 0

InitSearch ==
  /\ \E n \in 0..MaxStored : \E embs \in [1..n -> TestVectors] :
       /\ documents = TestChunks(n)
       /\ embeddings = embs
  /\ file = NoFile
  /\ IdleServer
  /\ srch = SrchIdle
  /\ prs = PrsIdle
  /\ emb = EmbIdle
  /\ bat = BatIdle
  /\ chk = ChkIdle
  /\ spl = SplIdle
  /\ pag = PagIdle
  /\ lex = LexIdle
  /\ srv = SrvIdle("openai")
  /\ aa = AaIdle

SearchCall ==
  /\ srch.pc = "idle"
  /\ \E q \in TestVectors, k \in 0..MaxTopK :
       srch' = [pc |-> "done", query |-> q, topK |-> k,
                out |-> SimilaritySearch(documents, embeddings, q, k)]
  /\ UNCHANGED <<documents, embeddings, file, currentPDFInfo, ld, up, ask,
                 embedReqs, genReqs, nUploads, nAsks, nRestarts, prs, emb, bat, chk, spl, pag, lex, srv, aa>>

NextSearch == SearchCall

SpecSearch == InitSearch /\ [][NextSearch]_vars

(* -------------------- parseResponse called directly ------------------- *)
\* bounds of the retrieved chunks and of the lines of a Citations section
MaxRetrieved == 2
MaxLines == 3

\* The retrieved chunks: texts shorter than, longer than and as long as the
\* citation preview.
TextOfLength(n) == [j \in 1..n |-> "x"]

RetrievedChunks(n) ==
  [i \in 1..n |->
     [chunkId |-> <<"chunk_", i + 3>>,
      pageNumber |-> IF i = 2 THEN Null ELSE [num |-> i],
      text |-> <<"c", i>> \o TextOfLength(CASE i = 1 -> 3 [] i = 2 -> PreviewLen [] OTHER -> PreviewLen - 2),
      tokenCount |-> 1]]

PageLabels == {"1", "X"}

CitationLines(n) ==
  {BlankLine, JunkLine} \cup {MarkerLine(m, p) : m \in 0..(n + 1), p \in PageLabels}

ModelResponses(n) ==
  { [hasAnswer |-> a, answer |-> <<"ok">>, hasCitations |-> FALSE, lines |-> << >>] :
      a \in BOOLEAN }
  \cup
  UNION { { [hasAnswer |-> a, answer |-> <<"ok">>, hasCitations |-> TRUE, lines |-> ls] :
              a \in BOOLEAN, ls \in [1..len -> CitationLines(n)] } : len \in 0..MaxLines }

InitParse ==
  /\ documents = << >>
  /\ embeddings = << >>
  /\ file = NoFile
  /\ IdleServer
  /\ srch = SrchIdle
  /\ prs = PrsIdle
  /\ emb = EmbIdle
  /\ bat = BatIdle
  /\ chk = ChkIdle
  /\ spl = SplIdle
  /\ pag = PagIdle
  /\ lex = LexIdle
  /\ srv = SrvIdle("openai")
  /\ aa = AaIdle

ParseCall ==
  /\ prs.pc = "idle"
  /\ \E n \in 0..MaxRetrieved : \E r \in ModelResponses(n) :
       prs' = [pc |-> "done", chunks |-> RetrievedChunks(n), response |-> r,
               out |-> ParseResponse(r, RetrievedChunks(n))]
  /\ UNCHANGED <<documents, embeddings, file, currentPDFInfo, ld, up, ask,
                 embedReqs, genReqs, nUploads, nAsks, nRestarts, srch, emb, bat, chk, spl, pag, lex, srv, aa>>

NextParse == ParseCall

SpecParse == InitParse /\ [][NextParse]_vars

(* ------------------ queryRAG on a store that is loaded ---------------- *)
\* The generation an upload of this PDF installs when every step succeeds.
NewGeneration(pdf) ==
  LET chunks == CreateChunkObjects(RawChunksOf(pdf))
  IN <<chunks, EmbeddingsFor(chunks, "ok")>>

\* Questions are asked one after the other, of the /ask handler or of
\* queryRAG itself, while no upload is made: the store holds the chunks of a
\* document, or nothing.
InitQuery ==
  /\ \E pdf \in PDFs :
       /\ documents = NewGeneration(pdf)[1]
       /\ embeddings = NewGeneration(pdf)[2]
       /\ file = Stringify(documents, embeddings)
  /\ IdleServer
  /\ srch = SrchIdle
  /\ prs = PrsIdle
  /\ emb = EmbIdle
  /\ bat = BatIdle
  /\ chk = ChkIdle
  /\ spl = SplIdle
  /\ pag = PagIdle
  /\ lex = LexIdle
  /\ srv = SrvIdle("openai")
  /\ aa = AaIdle

NextQuery ==
  \/ AskRequest
  \/ EmbedRateLimited
  \/ EmbedSleepEnds
  \/ AskEmbedded
  \/ AskGenerated
  \/ AskDone

SpecQuery == InitQuery /\ [][NextQuery]_vars

(* ------------------ generateEmbedding called directly ----------------- *)
\* bound of the maxRetries argument
MaxRetriesArg == 3

EmbedTexts == { <<"a", "x">>, <<"b">>, <<"q", "1">> }

InitEmbed ==
  /\ documents = << >>
  /\ embeddings = << >>
  /\ file = NoFile
  /\ IdleServer
  /\ srch = SrchIdle
  /\ prs = PrsIdle
  /\ emb = EmbIdle
  /\ bat = BatIdle
  /\ chk = ChkIdle
  /\ spl = SplIdle
  /\ pag = PagIdle
  /\ lex = LexIdle
  /\ srv = SrvIdle("openai")
  /\ aa = AaIdle

\* generateEmbedding(text, maxRetries) is called, before or after
\* initializeEmbeddings.
EmbedCall ==
  /\ emb.pc = "idle"
  /\ \E text \in EmbedTexts, m \in 0..MaxRetriesArg, initialized \in BOOLEAN :
       emb' = IF initialized THEN EmbStart("direct", text, m)
                             ELSE EmbNotInitialized("direct", text, m)
  /\ UNCHANGED <<documents, embeddings, file, currentPDFInfo, ld, up, ask,
                 embedReqs, genReqs, nUploads, nAsks, nRestarts, srch, prs, bat, chk, spl, pag, lex, srv, aa>>

\* The request in flight ends the call: the vector is returned, or the error
\* is thrown to the caller.
EmbedEnds ==
  /\ emb.pc = "request"
  /\ emb.caller = "direct"
  /\ emb' \in EmbEndings(emb)
  /\ UNCHANGED <<documents, embeddings, file, currentPDFInfo, ld, up, ask,
                 embedReqs, genReqs, nUploads, nAsks, nRestarts, srch, prs, bat, chk, spl, pag, lex, srv, aa>>

NextEmbed ==
  \/ EmbedCall
  \/ EmbedRateLimited
  \/ EmbedSleepEnds
  \/ EmbedEnds

SpecEmbed == InitEmbed /\ [][NextEmbed]_vars

\* Every request to the API ends, with a response or an error, and every
\* timer of sleep fires.
FairSpecEmbed ==
  /\ SpecEmbed
  /\ WF_vars(EmbedRateLimited \/ EmbedEnds)
  /\ WF_vars(EmbedSleepEnds)

(* ----------------- generateEmbeddings called directly ----------------- *)
\* bound of the number of texts
MaxTexts == 41

\* Numbers of texts around the multiples of the batch size.
TextCounts ==
  {n \in 0..MaxTexts : n % BATCH_SIZE \in {0, 1, 2, BATCH_SIZE - 1}}

\* n texts, each different from the others
BatchTexts(n) == [i \in 1..n |-> [j \in 1..i |-> "t"]]

InitBatch ==
  /\ documents = << >>
  /\ embeddings = << >>
  /\ file = NoFile
  /\ IdleServer
  /\ srch = SrchIdle
  /\ prs = PrsIdle
  /\ emb = EmbIdle
  /\ bat = BatIdle
  /\ chk = ChkIdle
  /\ spl = SplIdle
  /\ pag = PagIdle
  /\ lex = LexIdle
  /\ srv = SrvIdle("openai")
  /\ aa = AaIdle

\* generateEmbeddings(texts) is called, the client being initialized: without
\* texts it returns at once, otherwise the first batch is requested.
BatchCall ==
  /\ bat.pc = "idle"
  /\ \E n \in TextCounts :
       LET b == [BatIdle EXCEPT !.texts = BatchTexts(n)]
       IN bat' = IF n = 0 THEN [b EXCEPT !.pc = "returned"] ELSE BatRequest(b, 0)
  /\ UNCHANGED <<documents, embeddings, file, currentPDFInfo, ld, up, ask,
                 embedReqs, genReqs, nUploads, nAsks, nRestarts, srch, prs, emb, chk, spl, pag, lex, srv, aa>>

\* The batch request succeeds: the vectors of the response are pushed in the
\* order of their indexes and the iteration ends.
BatchRequestSucceeds ==
  /\ bat.pc = "batch"
  /\ \E order \in ResponseOrders(Len(BatchAt(bat.texts, bat.i))) :
       LET data == ResponseData(BatchAt(bat.texts, bat.i), order)
       IN bat' = BatAfterBatch([bat EXCEPT !.embeddings = @ \o BatchEmbeddings(data)])
  /\ UNCHANGED <<documents, embeddings, file, currentPDFInfo, ld, up, ask,
                 embedReqs, genReqs, nUploads, nAsks, nRestarts, srch, prs, emb, chk, spl, pag, lex, srv, aa>>

\* The batch request fails, with any error: generateEmbedding is called for
\* the first text of the batch.
BatchRequestFails ==
  /\ bat.pc = "batch"
  /\ bat' = [bat EXCEPT !.pc = "fallback", !.fallbacks = @ + 1]
  /\ emb' = EmbStart("generateEmbeddings", BatchAt(bat.texts, bat.i)[1], DefaultMaxRetries)
  /\ UNCHANGED <<documents, embeddings, file, currentPDFInfo, ld, up, ask,
                 embedReqs, genReqs, nUploads, nAsks, nRestarts, srch, prs, chk, spl, pag, lex, srv, aa>>

\* generateEmbedding ends for a text of the batch.  Its error leaves
\* generateEmbeddings through the outer catch block.  Its vector is pushed,
\* and generateEmbedding is called for the next text of the batch or, after
\* the last one, the iteration ends.
BatchFallbackEmbedded ==
  /\ bat.pc = "fallback"
  /\ emb.pc = "request"
  /\ emb.caller = "generateEmbeddings"
  /\ \E e \in EmbEndings(emb) :
       IF e.pc = "thrown"
         THEN /\ bat' = [bat EXCEPT !.pc = "thrown", !.error = e.error]
              /\ emb' = EmbIdle
         ELSE LET pushed == [bat EXCEPT !.embeddings = Append(@, e.out)]
                  batch == BatchAt(bat.texts, bat.i)
                  done == Len(pushed.embeddings) - bat.i
              IN IF done < Len(batch)
                   THEN /\ bat' = pushed
                        /\ emb' = EmbStart("generateEmbeddings", batch[done + 1],
                                            DefaultMaxRetries)
                   ELSE /\ bat' = BatAfterBatch(pushed)
                        /\ emb' = EmbIdle
  /\ UNCHANGED <<documents, embeddings, file, currentPDFInfo, ld, up, ask,
                 embedReqs, genReqs, nUploads, nAsks, nRestarts, srch, prs, chk, spl, pag, lex, srv, aa>>

\* The delay has passed: i += BATCH_SIZE and the next batch is requested.
BatchDelayEnds ==
  /\ bat.pc = "delay"
  /\ bat' = BatRequest(bat, bat.i + BATCH_SIZE)
  /\ UNCHANGED <<documents, embeddings, file, currentPDFInfo, ld, up, ask,
                 embedReqs, genReqs, nUploads, nAsks, nRestarts, srch, prs, emb, chk, spl, pag, lex, srv, aa>>

NextBatch ==
  \/ BatchCall
  \/ BatchRequestSucceeds
  \/ BatchRequestFails
  \/ EmbedRateLimited
  \/ EmbedSleepEnds
  \/ BatchFallbackEmbedded
  \/ BatchDelayEnds

SpecBatch == InitBatch /\ [][NextBatch]_vars

(* --------------------- createChunks called directly ------------------- *)
\* bounds of the text length, of chunkSize and of overlap
MaxTextLen == 6
MaxChunkSize == 4
MaxOverlap == 2
\* bounds of the number of pages, of the length of a text given to
\* splitTextIntoChunks and of its chunkSize
MaxPages == 2
MaxSplitLen == 7
MaxSplitSize == 2

TextChars == {"a", "b", " ", NL}

Texts == UNION { [1..n -> TextChars] : n \in 0..MaxTextLen }

InitChunk ==
  /\ documents = << >>
  /\ embeddings = << >>
  /\ file = NoFile
  /\ IdleServer
  /\ srch = SrchIdle
  /\ prs = PrsIdle
  /\ emb = EmbIdle
  /\ bat = BatIdle
  /\ chk = ChkIdle
  /\ spl = SplIdle
  /\ pag = PagIdle
  /\ lex = LexIdle
  /\ srv = SrvIdle("openai")
  /\ aa = AaIdle

ChunkCall ==
  /\ chk.pc = "idle" /\ pag.pc = "idle"
  /\ \E text \in Texts, chunkSize \in 1..MaxChunkSize, overlap \in 0..MaxOverlap :
       chk' = [pc |-> "done", text |-> text, chunkSize |-> chunkSize,
               overlap |-> overlap, out |-> CreateChunks(text, chunkSize, overlap),
               sealed |-> SealedBuffers(text, chunkSize, overlap)]
  /\ UNCHANGED <<documents, embeddings, file, currentPDFInfo, ld, up, ask,
                 embedReqs, genReqs, nUploads, nAsks, nRestarts, srch, prs, emb, bat, spl, pag, lex, srv, aa>>

\* The pages of a PDF, numbered from 1; the text of page k is written
\* with a letter of its own.
PageLetter(k) == <<"a", "b", "c", "d">>[k]

PageTexts(k) ==
  LET l == PageLetter(k)
  IN { << >>, <<" ">>, <<l>>, <<l, l, " ", l, l, l>>, <<l, ".", " ", l, l, l>>,
       <<l, l, l, l, l, l>>, <<l, l, l, l, l, l, l, l, l, l>> }

PageLists ==
  UNION { { [k \in 1..n |-> [pageNumber |-> k, text |-> texts[k]]] :
              texts \in { t \in [1..n -> UNION { PageTexts(k) : k \in 1..n }] :
                            \A k \in 1..n : t[k] \in PageTexts(k) } } :
          n \in 0..MaxPages }

\* createChunkObjects(splitPagedTextIntoChunks(pages, chunkSize, overlap)),
\* as /upload-pdf calls them
PagedCall ==
  /\ pag.pc = "idle" /\ chk.pc = "idle"
  /\ \E pages \in PageLists, chunkSize \in 1..MaxSplitSize :
       \E overlap \in 0..(chunkSize - 1) :
         LET rawChunks == SplitPagedTextIntoChunks(pages, chunkSize, overlap)
         IN pag' = [pc |-> IF rawChunks.thrown THEN "thrown" ELSE "done",
                    pages |-> pages, chunkSize |-> chunkSize, overlap |-> overlap,
                    out |-> IF rawChunks.thrown THEN << >>
                            ELSE CreateChunkObjects(rawChunks.allChunks)]
  /\ UNCHANGED <<documents, embeddings, file, currentPDFInfo, ld, up, ask,
                 embedReqs, genReqs, nUploads, nAsks, nRestarts, srch, prs, emb, bat,
                 chk, spl, lex, srv, aa>>

NextChunk == ChunkCall \/ PagedCall

SpecChunk == InitChunk /\ [][NextChunk]_vars

(* ------------------ splitTextIntoChunks called directly --------------- *)
SplitChars == {"a", ".", " "}

SplitTexts == UNION { [1..n -> SplitChars] : n \in 0..MaxSplitLen }

InitSplit ==
  /\ documents = << >>
  /\ embeddings = << >>
  /\ file = NoFile
  /\ IdleServer
  /\ srch = SrchIdle
  /\ prs = PrsIdle
  /\ emb = EmbIdle
  /\ bat = BatIdle
  /\ chk = ChkIdle
  /\ spl = SplIdle
  /\ pag = PagIdle
  /\ lex = LexIdle
  /\ srv = SrvIdle("openai")
  /\ aa = AaIdle

\* splitTextIntoChunks(text, chunkSize, overlap) is called, 0 <= overlap <
\* chunkSize, and runs up to the first test of the while loop
SplitCall ==
  /\ spl.pc = "idle"
  /\ \E text \in SplitTexts, chunkSize \in 1..MaxSplitSize :
       \E overlap \in 0..(chunkSize - 1) :
         spl' = SplitStart(text, chunkSize, overlap)
  /\ UNCHANGED <<documents, embeddings, file, currentPDFInfo, ld, up, ask,
                 embedReqs, genReqs, nUploads, nAsks, nRestarts, srch, prs, emb, bat,
                 chk, pag, lex, srv, aa>>

\* one iteration of the while loop
SplitIteration ==
  /\ spl.pc = "loop"
  /\ spl' = SplitStep(spl)
  /\ UNCHANGED <<documents, embeddings, file, currentPDFInfo, ld, up, ask,
                 embedReqs, genReqs, nUploads, nAsks, nRestarts, srch, prs, emb, bat,
                 chk, pag, lex, srv, aa>>

NextSplit == SplitCall \/ SplitIteration

SpecSplit == InitSplit /\ [][NextSplit]_vars

(* ------------------ findRelevantChunks called directly ---------------- *)
MaxLexChunks == 3
MaxLexTopK == 4

\* the words of the questions: letters in both cases, a short word, a word
\* that ends with a question mark and a word with an opening parenthesis
LexWords ==
  { <<"a", "b", "a", "b">>, <<"A", "b", "a", "b">>, <<"a", "b">>,
    <<"a", "b", "a", "?">>, <<"(", "a", "b", "a">>, <<"b", "b", "b", "b">> }

LexQueries == LexWords \cup { v \o <<" ">> \o w : v, w \in LexWords }

LexTexts ==
  { <<"a", "b", "a", "b">>, <<"a", "b", " ", "A", "B", "A", "B", "a", "b">>,
    <<"a", "b", "a">>, <<"b", "b", "b", "b", " ", "a", "b", "a", "b">> }

LexChunkLists ==
  UNION { { [k \in 1..n |-> [id |-> <<"chunk_", k>>, text |-> texts[k]]] :
              texts \in [1..n -> LexTexts] } : n \in 0..MaxLexChunks }

InitLexical ==
  /\ documents = << >>
  /\ embeddings = << >>
  /\ file = NoFile
  /\ IdleServer
  /\ srch = SrchIdle
  /\ prs = PrsIdle
  /\ emb = EmbIdle
  /\ bat = BatIdle
  /\ chk = ChkIdle
  /\ spl = SplIdle
  /\ pag = PagIdle
  /\ lex = LexIdle
  /\ srv = SrvIdle("openai")
  /\ aa = AaIdle

FindCall ==
  /\ lex.pc = "idle"
  /\ \E documentChunks \in LexChunkLists, query \in LexQueries, topK \in 0..MaxLexTopK :
       lex' = [pc |-> IF FindThrows(documentChunks, query) THEN "thrown" ELSE "done",
               documentChunks |-> documentChunks, query |-> query, topK |-> topK,
               out |-> IF FindThrows(documentChunks, query) THEN << >>
                       ELSE FindRelevantChunks(documentChunks, query, topK)]
  /\ UNCHANGED <<documents, embeddings, file, currentPDFInfo, ld, up, ask,
                 embedReqs, genReqs, nUploads, nAsks, nRestarts, srch, prs, emb, bat,
                 chk, spl, pag, srv, aa>>

NextLexical == FindCall

SpecLexical == InitLexical /\ [][NextLexical]_vars

(* ------------- /upload-pdf and /cleanup, assistant-backed ------------- *)
MaxSrvRequests == 3

InitAssist ==
  /\ documents = << >>
  /\ embeddings = << >>
  /\ file = NoFile
  /\ IdleServer
  /\ srch = SrchIdle
  /\ prs = PrsIdle
  /\ emb = EmbIdle
  /\ bat = BatIdle
  /\ chk = ChkIdle
  /\ spl = SplIdle
  /\ pag = PagIdle
  /\ lex = LexIdle
  /\ srv \in { SrvIdle("openai"), SrvIdle("litellm") }
  /\ aa = AaIdle

\* A request arrives and runs up to its first await.  An upload with a
\* previous PDF and /cleanup await cleanup(), whose assignments are made at
\* once by the LiteLLM backend and after the deletions by the OpenAI one; an
\* upload without a previous PDF awaits the first step of setupAssistant.
SrvRequest ==
  /\ srv.pc = "idle"
  /\ srv.n < MaxSrvRequests
  /\ \E req \in {"upload", "cleanup", "nofile"} :
       LET cleans == req = "cleanup" \/ (req = "upload" /\ srv.info # Null)
           s == IF cleans /\ srv.backend = "litellm" THEN ResetBackend(srv) ELSE srv
       IN srv' = [s EXCEPT !.n = @ + 1, !.req = req, !.stage = 1,
                    !.pc = CASE req = "nofile" -> "done"
                             [] cleans -> "cleanup"
                             [] OTHER -> "setup",
                    !.resp = IF req = "nofile" THEN "err400" ELSE "none"]
  /\ UNCHANGED <<documents, embeddings, file, currentPDFInfo, ld, up, ask,
                 embedReqs, genReqs, nUploads, nAsks, nRestarts, srch, prs, emb, bat,
                 chk, spl, pag, lex, aa>>

\* cleanup() returns: the ids are null.  /cleanup sets currentPDFInfo to
\* null and answers 200; an upload goes on with setupAssistant; a failed
\* setupAssistant throws on, which the handler answers 500.
SrvCleanupEnds ==
  /\ srv.pc \in {"cleanup", "failCleanup"}
  /\ srv' = [ResetBackend(srv) EXCEPT
               !.pc = IF srv.pc = "cleanup" /\ srv.req = "upload" THEN "setup" ELSE "done",
               !.info = IF srv.req = "cleanup" THEN Null ELSE @,
               !.resp = CASE srv.pc = "failCleanup" -> "err500"
                          [] srv.req = "cleanup" -> "ok200"
                          [] OTHER -> "none"]
  /\ UNCHANGED <<documents, embeddings, file, currentPDFInfo, ld, up, ask,
                 embedReqs, genReqs, nUploads, nAsks, nRestarts, srch, prs, emb, bat,
                 chk, spl, pag, lex, aa>>

\* An awaited step of setupAssistant ends.  OpenAI backend: the four steps
\* (files.create, vectorStores.create with the attachment and the polling,
\* assistants.create, threads.create) set their ids; a failure is caught, cleanup() is awaited and the error thrown
\* on; after the last step the handler sets currentPDFInfo and awaits
\* fs.unlink.  LiteLLM backend: the PDF is read and parsed, documentChunks
\* is assigned (chunks may be none) and fs.unlink is awaited; a failure is
\* thrown on and answered 500.
SrvSetupStep ==
  /\ srv.pc = "setup"
  /\ \E ok \in BOOLEAN, numChunks \in {0, 2} :
       srv' =
         IF srv.backend = "openai"
           THEN IF ~ok THEN [srv EXCEPT !.pc = "failCleanup"]
                ELSE [srv EXCEPT
                        !.hasFile = TRUE,
                        !.hasVectorStore = @ \/ srv.stage >= 2,
                        !.hasAssistant = @ \/ srv.stage >= 3,
                        !.hasThread = @ \/ srv.stage >= 4,
                        !.stage = @ + 1,
                        !.info = IF srv.stage = 4
                                   THEN [filename |-> srv.n] ELSE @,
                        !.pc = IF srv.stage = 4 THEN "unlink" ELSE "setup"]
           ELSE IF ~ok THEN [srv EXCEPT !.pc = "done", !.resp = "err500"]
                ELSE [srv EXCEPT !.numChunks = numChunks, !.pc = "unlink"]
  /\ UNCHANGED <<documents, embeddings, file, currentPDFInfo, ld, up, ask,
                 embedReqs, genReqs, nUploads, nAsks, nRestarts, srch, prs, emb, bat,
                 chk, spl, pag, lex, aa>>

\* fs.unlink ends.  OpenAI server: the handler answers 200, or 500 when it
\* failed.  LiteLLM backend: setupAssistant returns and the handler sets
\* currentPDFInfo and answers 200, or it throws and the handler answers 500.
SrvUnlinked ==
  /\ srv.pc = "unlink"
  /\ \E ok \in BOOLEAN :
       srv' = [srv EXCEPT
                 !.pc = "done",
                 !.resp = IF ok THEN "ok200" ELSE "err500",
                 !.info = IF srv.backend = "litellm" /\ ok
                            THEN [filename |-> srv.n] ELSE @]
  /\ UNCHANGED <<documents, embeddings, file, currentPDFInfo, ld, up, ask,
                 embedReqs, genReqs, nUploads, nAsks, nRestarts, srch, prs, emb, bat,
                 chk, spl, pag, lex, aa>>

\* The response has been sent; the next request may arrive.
SrvDone ==
  /\ srv.pc = "done"
  /\ srv' = [srv EXCEPT !.pc = "idle", !.req = "none", !.stage = 0]
  /\ UNCHANGED <<documents, embeddings, file, currentPDFInfo, ld, up, ask,
                 embedReqs, genReqs, nUploads, nAsks, nRestarts, srch, prs, emb, bat,
                 chk, spl, pag, lex, aa>>

NextAssist ==
  SrvRequest \/ SrvCleanupEnds \/ SrvSetupStep \/ SrvUnlinked \/ SrvDone

SpecAssist == InitAssist /\ [][NextAssist]_vars

(* ------------------- askAssistant (OpenAI assistants) ----------------- *)
\* what a failed request or run reports
AssistantErrors == {"rate_limit_exceeded", "server_error"}

\* the backend after a successful setupAssistant
InitAskAssistant ==
  /\ documents = << >>
  /\ embeddings = << >>
  /\ file = NoFile
  /\ IdleServer
  /\ srch = SrchIdle
  /\ prs = PrsIdle
  /\ emb = EmbIdle
  /\ bat = BatIdle
  /\ chk = ChkIdle
  /\ spl = SplIdle
  /\ pag = PagIdle
  /\ lex = LexIdle
  /\ srv = [SrvIdle("openai") EXCEPT !.hasFile = TRUE, !.hasVectorStore = TRUE,
                                    !.hasAssistant = TRUE, !.hasThread = TRUE,
                                    !.info = [filename |-> 1], !.n = 1]
  /\ aa = AaIdle

\* askAssistant(question) with a question that is not blank: the checks
\* pass and threads.messages.create is awaited
AskAssistantCall ==
  /\ aa.pc = "idle"
  /\ IsReady(srv)
  /\ aa' = [aa EXCEPT !.pc = "addMessage"]
  /\ UNCHANGED <<documents, embeddings, file, currentPDFInfo, ld, up, ask,
                 embedReqs, genReqs, nUploads, nAsks, nRestarts, srch, prs, emb, bat,
                 chk, spl, pag, lex, srv>>

\* threads.messages.create ends: the question is in the thread and the run
\* is started, or the request failed
AaMessageCreated ==
  /\ aa.pc = "addMessage"
  /\ \/ aa' = [aa EXCEPT !.pc = "run", !.messages = @ + 1]
     \/ \E error \in AssistantErrors : aa' = AaCatch(aa, error)
  /\ UNCHANGED <<documents, embeddings, file, currentPDFInfo, ld, up, ask,
                 embedReqs, genReqs, nUploads, nAsks, nRestarts, srch, prs, emb, bat,
                 chk, spl, pag, lex, srv>>

\* runs.createAndPoll ends: the run completed and the last message is
\* listed, or the run ended in another status (its last_error.code is in the
\* message of the error thrown), or the request failed
AaRunEnds ==
  /\ aa.pc = "run"
  /\ \/ aa' = [aa EXCEPT !.pc = "list", !.runs = @ + 1]
     \/ \E error \in AssistantErrors : aa' = AaCatch([aa EXCEPT !.runs = @ + 1], error)
  /\ UNCHANGED <<documents, embeddings, file, currentPDFInfo, ld, up, ask,
                 embedReqs, genReqs, nUploads, nAsks, nRestarts, srch, prs, emb, bat,
                 chk, spl, pag, lex, srv>>

\* threads.messages.list ends: the answer is returned, or no assistant
\* message is found, or the request failed
AaListed ==
  /\ aa.pc = "list"
  /\ \/ aa' = [aa EXCEPT !.pc = "returned", !.out = "answer"]
     \/ \E error \in AssistantErrors \cup {"no_response"} : aa' = AaCatch(aa, error)
  /\ UNCHANGED <<documents, embeddings, file, currentPDFInfo, ld, up, ask,
                 embedReqs, genReqs, nUploads, nAsks, nRestarts, srch, prs, emb, bat,
                 chk, spl, pag, lex, srv>>

\* the 20 seconds have passed: the loop starts over
AaSleepEnds ==
  /\ aa.pc = "sleep"
  /\ aa' = [aa EXCEPT !.pc = "addMessage"]
  /\ UNCHANGED <<documents, embeddings, file, currentPDFInfo, ld, up, ask,
                 embedReqs, genReqs, nUploads, nAsks, nRestarts, srch, prs, emb, bat,
                 chk, spl, pag, lex, srv>>

\* the caller has the result; the next question may be asked
AaDone ==
  /\ aa.pc \in {"returned", "thrown"}
  /\ srv.n < MaxSrvRequests
  /\ aa' = AaIdle
  /\ srv' = [srv EXCEPT !.n = @ + 1]
  /\ UNCHANGED <<documents, embeddings, file, currentPDFInfo, ld, up, ask,
                 embedReqs, genReqs, nUploads, nAsks, nRestarts, srch, prs, emb, bat,
                 chk, spl, pag, lex>>

NextAskAssistant ==
  \/ AskAssistantCall \/ AaMessageCreated \/ AaRunEnds \/ AaListed
  \/ AaSleepEnds \/ AaDone

SpecAskAssistant == InitAskAssistant /\ [][NextAskAssistant]_vars

(* ============================== claims ================================ *)
\* C1: while one upload replaces an indexed document, every store read made
\* for a concurrent question (isEmpty, similaritySearch) finds the whole
\* previous generation or the whole new one.  The startup load has ended
\* before both requests and the embedder answers with one vector per chunk.
C1_QuestionSeesWholeGeneration ==
  ( /\ up.pc # "idle" /\ up.quiet
    /\ ask.pc # "idle" /\ ask.quiet
    /\ nRestarts = 0 /\ nUploads = 1
    /\ up.before[1] # << >>
    /\ NewGeneration(up.pdf)[1] # << >>
    /\ (up.pc \in {"load", "embed"} \/ Len(up.embs) = Len(up.chunks)) )
  => \A i \in 1..Len(ask.seen) :
       ask.seen[i] \in {up.before, NewGeneration(up.pdf)}

\* C2: an upload answered with an error leaves the documents and embeddings
\* of the store as they were when the request arrived (the startup load has
\* ended before the request).
C2_FailedUploadLeavesStore ==
  (up.pc = "done" /\ up.resp \in {"err400", "err500"} /\ up.quiet)
  => <<documents, embeddings>> = up.before

\* C3: in every reachable state the store holds as many embeddings as
\* documents, and the i-th embedding is the embedding of the i-th chunk.
C3_StoreAligned ==
  /\ Len(documents) = Len(embeddings)
  /\ \A i \in 1..Len(documents) :
       i <= Len(embeddings) /\ embeddings[i] = EmbedOf(documents[i].text)

\* a generation loaded from the file has been cleared and replaced by an
\* uploaded one
C3_Witness ==
  /\ ld.pc = "done" /\ up.quiet /\ up.before[1] # << >>
  /\ up.pc = "addSave" /\ Len(documents) > 0 /\ documents # up.before[1]

\* C4: addDocuments with lists of different lengths throws, assigns nothing,
\* writes nothing; with lists of one length it assigns both collections in
\* one turn, size() is then chunks.length and isEmpty() is size() = 0.
C4_AddDocuments ==
  [][ (up.pc = "clearSave" /\ up'.pc # "clearSave")
      => IF Len(up.chunks) # Len(up.embs)
           THEN /\ up'.addThrew /\ up'.resp = "err500"
                /\ up'.io = "none"
                /\ documents' = documents
                /\ embeddings' = embeddings
                /\ file' = file
           ELSE /\ ~up'.addThrew
                /\ documents' = up.chunks
                /\ embeddings' = up.embs
                /\ Size(documents') = Len(up.chunks)
                /\ (IsEmpty(documents') <=> Size(documents') = 0) ]_vars

\* addDocuments has thrown on two chunks with one embedding
C4_Witness ==
  /\ up.pc = "done" /\ up.addThrew
  /\ Len(up.chunks) = 2 /\ Len(up.embs) = 1
  /\ documents = << >> /\ embeddings = << >>

\* C5: when the snapshot write of addDocuments has failed, the store holds
\* the new chunks and embeddings and the upload is answered as a success
\* (the startup load has ended before the request).
C5_FailedSaveStillSucceeds ==
  (up.pc = "done" /\ up.addSaveFailed /\ up.quiet)
  => /\ up.resp = "ok200"
     /\ documents = up.chunks
     /\ embeddings = up.embs

\* C6: after an upload that was answered as a success and whose snapshot
\* writes all succeeded, the file holds the documents and embeddings of the
\* store.
C6_SnapshotMatchesMemory ==
  (up.pc = "done" /\ up.resp = "ok200" /\ ~up.clearSaveFailed /\ ~up.addSaveFailed)
  => file = Stringify(documents, embeddings)

\* C7: a question (valid, or given to queryRAG directly) that arrives while
\* the store is empty is answered with the not-ready error in the same turn:
\* no embedding request, no generation request, no change of the store.
C7_NotReadyBeforeAnyRequest ==
  [][ ( /\ ask.pc = "idle" /\ ask'.pc # "idle"
        /\ Len(documents) = 0
        /\ (ask'.direct \/ QuestionValid(ask'.question)) )
      => /\ ask'.pc = "done"
         /\ ask'.resp.error = "NotReady"
         /\ ask'.resp.status = (IF ask'.direct THEN "thrown" ELSE "err400")
         /\ ask'.resp.answer = << >> /\ ask'.resp.citations = << >>
         /\ embedReqs' = embedReqs
         /\ genReqs' = genReqs
         /\ UNCHANGED <<documents, embeddings, file>> ]_vars

\* the /ask handler has refused a valid question on an empty store
C7_Witness ==
  /\ ask.pc = "done" /\ ~ask.direct /\ QuestionValid(ask.question)
  /\ ask.resp.error = "NotReady" /\ Len(documents) = 0
  /\ embedReqs = 0 /\ genReqs = 0

\* the position of a chunk in the store
StoredIndex(chunk) == CHOOSE i \in 1..Len(documents) : documents[i] = chunk

\* C8: similaritySearch returns min(topK, size()) results without throwing,
\* each a stored chunk with its similarity to the query, no chunk twice; on
\* the empty store the result is empty.
C8_SearchLength ==
  srch.pc = "done" =>
    /\ ~SearchThrows(documents, embeddings, srch.query)
    /\ Len(srch.out) = Min(srch.topK, Size(documents))
    /\ (Len(documents) = 0 => srch.out = << >>)
    /\ \A a \in 1..Len(srch.out) :
         /\ \E i \in 1..Len(documents) :
              /\ srch.out[a].chunk = documents[i]
              /\ srch.out[a].similarity = CosineSimilarity(srch.query, embeddings[i])
         /\ \A b \in 1..Len(srch.out) :
              a # b => srch.out[a].chunk # srch.out[b].chunk

\* three stored chunks and topK = 5 give three results
C8_Witness ==
  /\ srch.pc = "done" /\ Len(documents) = 3 /\ srch.topK = 5
  /\ Len(srch.out) = 3

\* C9: the results are in order of non-increasing similarity, results of
\* equal similarity are in insertion order, and no chunk left out is more
\* similar to the query than a chunk returned.
C9_SearchOrder ==
  srch.pc = "done" =>
    /\ \A a, b \in 1..Len(srch.out) :
         a < b =>
           /\ ~SimLess(srch.out[a].similarity, srch.out[b].similarity)
           /\ (srch.out[a].similarity = srch.out[b].similarity
                 => StoredIndex(srch.out[a].chunk) < StoredIndex(srch.out[b].chunk))
    /\ \A i \in 1..Len(documents) :
         (\A a \in 1..Len(srch.out) : srch.out[a].chunk # documents[i])
           => \A a \in 1..Len(srch.out) :
                ~SimLess(srch.out[a].similarity,
                         CosineSimilarity(srch.query, embeddings[i]))

\* two chunks with different vectors tie for the first place and the third,
\* less similar one is left out
C9_Witness ==
  /\ srch.pc = "done" /\ Len(documents) = 3 /\ srch.topK = 2
  /\ Len(srch.out) = 2
  /\ srch.out[1].similarity = srch.out[2].similarity
  /\ embeddings[StoredIndex(srch.out[1].chunk)] # embeddings[StoredIndex(srch.out[2].chunk)]
  /\ \E i \in 1..3 :
       SimLess(CosineSimilarity(srch.query, embeddings[i]), srch.out[2].similarity)

\* the lines of the Citations section whose marker names a retrieved chunk
ResolvingLines(response, chunks) ==
  IF response.hasCitations
    THEN { i \in 1..Len(response.lines) :
             /\ response.lines[i].k = "marker"
             /\ response.lines[i].n \in 1..Len(chunks) }
    ELSE {}

\* C10, as claimed: every answer carries at least as many citations as chunks
\* were retrieved, unless none was retrieved.
C10_AtLeastAsManyCitations ==
  prs.pc = "done" =>
    (Len(prs.chunks) = 0 \/ Len(prs.out.citations) >= Len(prs.chunks))

\* C10, amended: one citation per retrieved chunk when no line of a
\* Citations section names a retrieved chunk (or there is no such section),
\* otherwise one citation per such line, which may be fewer than the chunks;
\* at least one citation whenever a chunk was retrieved.
C10_CitationCount ==
  prs.pc = "done" =>
    LET resolving == Cardinality(ResolvingLines(prs.response, prs.chunks))
    IN /\ Len(prs.out.citations) =
            (IF resolving = 0 THEN Len(prs.chunks) ELSE resolving)
       /\ (Len(prs.chunks) >= 1 => Len(prs.out.citations) >= 1)

\* two chunks were retrieved and the response cites one of them
C10_Witness ==
  /\ prs.pc = "done" /\ Len(prs.chunks) = 2
  /\ prs.response.hasCitations
  /\ Cardinality(ResolvingLines(prs.response, prs.chunks)) = 1
  /\ Len(prs.out.citations) = 1

\* C11: a result returned by queryRAG has at least one citation whenever it
\* has at least one retrieved chunk; it has no citation only when it has no
\* retrieved chunk, which is the early return on an empty search result.
C11_CitedWheneverRetrieved ==
  (ask.pc = "done" /\ ask.resp.status = "ok") =>
    /\ (Len(ask.resp.retrievedChunks) >= 1 => Len(ask.resp.citations) >= 1)
    /\ (Len(ask.resp.citations) = 0
          => /\ Len(ask.resp.retrievedChunks) = 0
             /\ ask.resp.answer = NoInfoAnswer)

\* two chunks were retrieved and the result cites both of them, with their
\* own page numbers: no line of the response named a retrieved chunk
C11_Witness ==
  /\ ask.pc = "done" /\ ask.resp.status = "ok"
  /\ Len(ask.resp.retrievedChunks) = 2
  /\ Len(ask.resp.citations) = 2
  /\ \A i \in 1..2 :
       ask.resp.citations[i].pageNumber = ask.resp.retrievedChunks[i].chunk.pageNumber

\* p is the first 100 characters of text (all of it when it is shorter)
\* followed by three dots
IsPreviewOf(p, text) ==
  LET k == Min(PreviewLen, Len(text))
  IN /\ Len(p) = k + 3
     /\ \A j \in 1..k : p[j] = text[j]
     /\ \A j \in (k + 1)..(k + 3) : p[j] = "."

\* C12: when the response has no Citations section, or has one in which no
\* line names a retrieved chunk, parseResponse returns one citation per
\* retrieved chunk, in retrieval order, each with the chunk's id, the chunk's
\* page number (N/A without one) and the preview of the chunk's own text.
C12_FallbackPerChunk ==
  (prs.pc = "done" /\ ResolvingLines(prs.response, prs.chunks) = {}) =>
    /\ Len(prs.out.citations) = Len(prs.chunks)
    /\ \A i \in 1..Len(prs.chunks) :
         /\ prs.out.citations[i].chunkId = prs.chunks[i].chunkId
         /\ IsPreviewOf(prs.out.citations[i].text, prs.chunks[i].text)
         /\ prs.out.citations[i].pageNumber =
              (IF prs.chunks[i].pageNumber = Null
                 THEN [str |-> "N/A"] ELSE prs.chunks[i].pageNumber)

\* a Citations section whose three lines all fail to name one of the two
\* retrieved chunks (a marker out of range among them), and a chunk text
\* longer than the preview
C12_Witness ==
  /\ prs.pc = "done" /\ Len(prs.chunks) = 2
  /\ prs.response.hasCitations /\ Len(prs.response.lines) = 3
  /\ \E i \in 1..3 : prs.response.lines[i] = MarkerLine(3, "1")
  /\ ResolvingLines(prs.response, prs.chunks) = {}
  /\ Len(prs.out.citations) = 2
  /\ Len(prs.chunks[2].text) > PreviewLen

\* p is a prefix of text
IsPrefixOf(p, text) ==
  /\ Len(p) <= Len(text)
  /\ \A j \in 1..Len(p) : p[j] = text[j]

\* the number of the lines up to line i that name a retrieved chunk: the
\* position of the citation of line i among the parsed citations
CitationIndex(response, chunks, i) ==
  Cardinality({j \in ResolvingLines(response, chunks) : j <= i})

\* C13, as claimed: the citation of a marker [C<n> | Page <p>] with n in
\* 1..chunks.length has the n-th chunk's id and a text that is a prefix of
\* that chunk's text.
C13_TextIsPrefixOfChunk ==
  prs.pc = "done" =>
    \A i \in ResolvingLines(prs.response, prs.chunks) :
      LET c == prs.out.citations[CitationIndex(prs.response, prs.chunks, i)]
          n == prs.response.lines[i].n
      IN /\ c.chunkId = prs.chunks[n].chunkId
         /\ IsPrefixOf(c.text, prs.chunks[n].text)

\* C13, amended: every citation returned names a retrieved chunk and its
\* text is the preview of that chunk's text (its first 100 characters and
\* three dots, so not a prefix of it); when some line names a retrieved chunk
\* the citations are those of such lines, in line order: the line of a marker
\* [C<n> | Page <p>] with n in 1..chunks.length gives the n-th chunk's id, the
\* label p and the preview of the n-th chunk's text, and a marker with n
\* outside that range gives no citation.
C13_CitationsNameRetrievedChunks ==
  prs.pc = "done" =>
    LET resolving == ResolvingLines(prs.response, prs.chunks)
    IN /\ \A a \in 1..Len(prs.out.citations) :
            \E n \in 1..Len(prs.chunks) :
              /\ prs.out.citations[a].chunkId = prs.chunks[n].chunkId
              /\ IsPreviewOf(prs.out.citations[a].text, prs.chunks[n].text)
       /\ resolving # {} =>
            /\ Len(prs.out.citations) = Cardinality(resolving)
            /\ \A i \in resolving :
                 LET c == prs.out.citations[CitationIndex(prs.response, prs.chunks, i)]
                     n == prs.response.lines[i].n
                 IN /\ c.chunkId = prs.chunks[n].chunkId
                    /\ c.pageNumber = [str |-> prs.response.lines[i].page]
                    /\ IsPreviewOf(c.text, prs.chunks[n].text)

\* of three lines the first names chunk 2, the second a chunk that was not
\* retrieved and the third chunk 1: two citations, of chunk 2 and of chunk 1
C13_Witness ==
  /\ prs.pc = "done" /\ Len(prs.chunks) = 2
  /\ prs.response.hasCitations /\ Len(prs.response.lines) = 3
  /\ prs.response.lines[1] = MarkerLine(2, "X")
  /\ prs.response.lines[2] = MarkerLine(3, "1")
  /\ prs.response.lines[3] = MarkerLine(1, "1")
  /\ Len(prs.out.citations) = 2
  /\ prs.out.citations[1].chunkId = prs.chunks[2].chunkId
  /\ prs.out.citations[2].chunkId = prs.chunks[1].chunkId

\* C15: generateEmbedding(text, maxRetries = m) issues at most m + 1
\* requests; after the rate-limited failure of attempt k < m it sleeps 2^k
\* seconds (1 s, then twice the previous wait) and issues the next request; a
\* failure that is not a rate limit is thrown without a retry; a rate-limited
\* failure of attempt m is thrown; a call that has issued a request ends by
\* returning the vector of its text or by throwing.
C15_RetryPolicy ==
  /\ [] ( emb.pc # "idle" =>
           /\ emb.requests <= emb.maxRetries + 1
           /\ emb.requests = (IF emb.error = "NotInitialized" THEN 0 ELSE emb.attempt + 1)
           /\ Len(emb.waits) = (IF emb.pc = "sleep" THEN emb.attempt + 1 ELSE emb.attempt)
           /\ \A k \in 1..Len(emb.waits) :
                emb.waits[k] = (IF k = 1 THEN 1000 ELSE 2 * emb.waits[k - 1])
           /\ (emb.pc = "sleep" =>
                 emb.error = "RateLimited" /\ emb.attempt < emb.maxRetries)
           /\ (emb.pc = "thrown" /\ emb.error = "RateLimited" =>
                 emb.attempt = emb.maxRetries /\ emb.requests = emb.maxRetries + 1)
           /\ (emb.pc = "thrown" => emb.error # "none" /\ emb.out = << >>)
           /\ (emb.pc = "returned" => emb.out = EmbedOf(emb.text)) )
  /\ [][ (emb.pc = "request" /\ emb'.error \notin {"none", "RateLimited"})
           => emb'.pc = "thrown" /\ emb'.requests = emb.requests ]_vars
  /\ (emb.pc = "request" ~> emb.pc \in {"returned", "thrown"})

\* with maxRetries = 3 four requests were rate-limited: the call slept 1 s,
\* 2 s and 4 s and threw the last error
C15_Witness ==
  /\ emb.pc = "thrown" /\ emb.error = "RateLimited"
  /\ emb.maxRetries = 3 /\ emb.requests = 4
  /\ emb.waits = <<1000, 2000, 4000>>

\* C14: when the embedding request or the generation request of a question
\* fails, queryRAG throws the error of the request and the /ask handler
\* answers 500 with that error's message, in both cases without answer,
\* citations or retrieved chunks; every response is either a result with all
\* three and no error, or an error without any of them; no step of a
\* question changes the documents, the embeddings or the file of the store.
C14_FailureIsAnErrorOnly ==
  /\ [] ( ask.pc = "done" =>
           /\ \/ /\ ask.resp.status = "ok"
                 /\ ask.resp.error = "none" /\ ask.resp.details = "none"
                 /\ ask.raised = "none"
                 /\ Len(ask.resp.answer) > 0
                 /\ ask.resp.retrievedChunks = ask.results
              \/ /\ ask.resp.status \in {"thrown", "err400", "err500"}
                 /\ ask.resp.error # "none"
                 /\ ask.resp.answer = << >>
                 /\ ask.resp.citations = << >>
                 /\ ask.resp.retrievedChunks = << >>
           /\ (ask.raised # "none" =>
                 IF ask.direct
                   THEN ask.resp.status = "thrown" /\ ask.resp.error = ask.raised
                   ELSE /\ ask.resp.status = "err500"
                        /\ ask.resp.error = "FailedToProcess"
                        /\ ask.resp.details = ask.raised) )
  /\ [][ (ask' # ask \/ emb' # emb)
           => UNCHANGED <<documents, embeddings, file>> ]_vars

\* the generation request of a question put to /ask has failed after chunks
\* were retrieved: the answer is a 500 that carries the error's message
C14_Witness ==
  /\ ask.pc = "done" /\ ~ask.direct
  /\ ask.raisedBy = "generation" /\ ask.raised = "ServerError"
  /\ Len(ask.results) = 2
  /\ ask.resp.status = "err500" /\ ask.resp.details = "ServerError"
  /\ ask.resp.citations = << >>

\* C16: a rate-limit error of the generation request reaches the caller of
\* queryRAG only after generateAnswer has issued the request again.
C16_GenerationRetried ==
  (ask.pc = "done" /\ ask.raisedBy = "generation" /\ ask.raised = "RateLimited")
  => ask.generations > 1

\* C19, as claimed: a queryRAG call on a non-empty store issues exactly one
\* embedding request and performs exactly one similaritySearch.
C19_OneRequestOneSearch ==
  /\ (ask.pc = "embedQ" => emb.requests = 1)
  /\ (ask.pc = "done" /\ ask.embedCalls = 1 => ask.searches = 1)

\* C19, amended: a queryRAG call on a non-empty store calls generateEmbedding
\* once, for its own question; that call issues one request and one more
\* after each rate-limited failure, four at most; similaritySearch is
\* performed once, with the embedding of the call's own question, when the
\* embedding is returned, and not at all when generateEmbedding throws; on an
\* empty store neither is called.
C19_OneEmbeddingCallOneSearch ==
  /\ (ask.pc = "embedQ" =>
        /\ ask.embedCalls = 1 /\ ask.searches = 0
        /\ emb.caller = "queryRAG" /\ emb.text = ask.question
        /\ emb.maxRetries = DefaultMaxRetries
        /\ emb.requests = 1 + Len(emb.waits) - (IF emb.pc = "sleep" THEN 1 ELSE 0)
        /\ emb.requests \in 1..(DefaultMaxRetries + 1))
  /\ (ask.pc \in {"generate", "done"} =>
        /\ emb = EmbIdle
        /\ ask.embedCalls = (IF ask.resp.error \in {"NotReady", "QuestionRequired"}
                               THEN 0 ELSE 1)
        /\ ask.searches = (IF ask.embedCalls = 1 /\ ask.raisedBy # "embedding"
                             THEN 1 ELSE 0)
        /\ (ask.searches = 1 => ask.queryEmbedding = EmbedOf(ask.question)))

\* the generateEmbedding call of a second question, different from the
\* first, has issued its third request
C19_Witness ==
  /\ nAsks = 2 /\ embedReqs = 2
  /\ ask.pc = "embedQ" /\ ask.question = <<" ">>
  /\ emb.pc = "request" /\ emb.requests = 3

\* C17: when generateEmbeddings(texts) returns, the result has texts.length
\* vectors and the vector at position i is the embedding of texts[i],
\* whichever batches were answered as a batch (in any order of the items)
\* and whichever fell back to single requests.
C17_OneVectorPerTextInOrder ==
  bat.pc = "returned" =>
    /\ Len(bat.embeddings) = Len(bat.texts)
    /\ \A i \in 1..Len(bat.texts) :
         /\ bat.embeddings[i] = EmbedOf(bat.texts[i])
         /\ bat.embeddings[i] = <<i, 1>>

\* 41 texts in three batches, of which one fell back to single requests
C17_Witness ==
  /\ bat.pc = "returned" /\ Len(bat.texts) = 41
  /\ bat.batchReqs = 3 /\ bat.fallbacks = 1
  /\ Len(bat.embeddings) = 41

\* C18: generateEmbeddings requests the texts in consecutive batches of at
\* most 20, in input order, ceil(n / 20) batches when it returns; it awaits
\* the delay of 500 ms after a batch exactly when another batch follows; a
\* failed batch request is followed by generateEmbedding calls for the texts
\* of that batch, one at a time and in order, after which the next batch is
\* requested as a batch; the call throws only when such a generateEmbedding
\* call throws.
C18_BatchSchedule ==
  /\ [] ( bat.pc # "idle" =>
           LET n == Len(bat.texts)
               size == Min(BATCH_SIZE, n - bat.i)
               done == Len(bat.embeddings) - bat.i
           IN /\ bat.i = (IF n = 0 THEN 0 ELSE BATCH_SIZE * (bat.batchReqs - 1))
              /\ bat.batchReqs = (IF n = 0 THEN 0 ELSE (bat.i \div BATCH_SIZE) + 1)
              /\ bat.delays = (IF bat.pc = "delay" THEN bat.batchReqs
                               ELSE IF n = 0 THEN 0 ELSE bat.batchReqs - 1)
              /\ (bat.pc = "batch" =>
                    /\ done = 0 /\ size \in 1..BATCH_SIZE
                    /\ emb = EmbIdle)
              /\ (bat.pc = "delay" =>
                    /\ bat.i + BATCH_SIZE < n /\ done = BATCH_SIZE
                    /\ bat.waited = 500)
              /\ (bat.pc = "fallback" =>
                    /\ done \in 0..(size - 1)
                    /\ emb.pc \in {"request", "sleep"}
                    /\ emb.caller = "generateEmbeddings"
                    /\ emb.text = bat.texts[bat.i + done + 1])
              /\ (bat.pc = "returned" =>
                    /\ bat.i + BATCH_SIZE >= n
                    /\ bat.batchReqs = (n + 19) \div 20)
              /\ (bat.pc = "thrown" =>
                    /\ bat.error # "none" /\ bat.fallbacks >= 1
                    /\ done \in 0..(size - 1)) )
  /\ [][ (bat'.pc = "fallback" /\ bat.pc # "fallback") => bat.pc = "batch" ]_vars
  /\ [][ (bat'.pc = "thrown" /\ bat.pc # "thrown")
           => /\ bat.pc = "fallback" /\ emb.pc = "request"
              /\ bat'.error \in ApiErrors ]_vars
  /\ [][ (bat.pc \in {"batch", "fallback"} /\ bat'.pc \in {"delay", "returned"})
           => /\ Len(bat'.embeddings) = Min(bat.i + BATCH_SIZE, Len(bat.texts))
              /\ (bat'.pc = "delay" <=> bat.i + BATCH_SIZE < Len(bat.texts)) ]_vars
  /\ [][ (bat.pc = "delay" /\ bat'.pc # "delay")
           => bat'.pc = "batch" /\ bat'.i = bat.i + BATCH_SIZE ]_vars

\* the second batch of 41 texts has failed as a batch, its first four texts
\* were embedded one at a time and the request for the fifth is being
\* repeated after a rate limit
C18_Witness ==
  /\ bat.pc = "fallback" /\ Len(bat.texts) = 41
  /\ bat.i = 20 /\ bat.delays = 1
  /\ Len(bat.embeddings) = 24
  /\ emb.pc = "request" /\ emb.requests = 2
  /\ emb.text = bat.texts[25]

\* C20: every chunk createChunks emits is at most chunkSize characters
\* long, unless some paragraph of the text is longer than chunkSize.
C20_ChunkWithinSize ==
  chk.pc = "done" =>
    \/ \E k \in 1..Len(SplitParagraphs(chk.text)) :
         Len(SplitParagraphs(chk.text)[k]) > chk.chunkSize
    \/ \A c \in 1..Len(chk.out) : Len(chk.out[c].text) <= chk.chunkSize

\* C21: no chunk createChunks returns has an empty text, whatever the input
\* text (whitespace-only paragraphs and the empty text included).
C21_NoEmptyChunk ==
  chk.pc = "done" => \A c \in 1..Len(chk.out) : Len(chk.out[c].text) > 0

\* the last overlap characters of a buffer (the whole buffer when it is
\* shorter)
OverlapTail(buffer, overlap) ==
  SubSeq(buffer, Max(0, Len(buffer) - overlap) + 1, Len(buffer))

\* every paragraph that is not blank is, trimmed, inside some emitted chunk
C22_ParagraphsWhole ==
  LET paragraphs == SplitParagraphs(chk.text)
  IN \A k \in 1..Len(paragraphs) :
       Len(Trim(paragraphs[k])) > 0 =>
         \E c \in 1..Len(chk.out) : IsSubstringOf(Trim(paragraphs[k]), chk.out[c].text)

\* C22 as stated: no paragraph is split, and the text of each chunk after
\* the first begins with the last overlap characters of the buffer sealed
\* before it.
C22_ChunkBeginsWithOverlap ==
  chk.pc = "done" =>
    /\ C22_ParagraphsWhole
    /\ \A c \in 2..Len(chk.out) :
         IsPrefixOf(OverlapTail(chk.sealed[c - 1], chk.overlap), chk.out[c].text)

\* C22 (amended): createChunks never splits a paragraph: each paragraph that
\* is not blank is contained whole, up to surrounding whitespace, in at least
\* one emitted chunk, a paragraph longer than chunkSize included.  Each chunk
\* is the trimmed text of its buffer, and the buffer of each chunk after the
\* first begins with the last overlap characters of the buffer sealed before
\* it (the whole buffer when it is shorter), followed by a blank line.
C22_BufferBeginsWithOverlap ==
  chk.pc = "done" =>
    /\ C22_ParagraphsWhole
    /\ Len(chk.sealed) = Len(chk.out)
    /\ \A c \in 1..Len(chk.out) : chk.out[c].text = Trim(chk.sealed[c])
    /\ \A c \in 2..Len(chk.out) :
         IsPrefixOf(OverlapTail(chk.sealed[c - 1], chk.overlap) \o <<NL, NL>>,
                    chk.sealed[c])

\* a paragraph longer than chunkSize after a sealed buffer that ends with a
\* space: the next chunk starts with the overlap less its leading whitespace
C22_Witness ==
  /\ chk.pc = "done"
  /\ chk.text = <<"a", " ", "b", NL, NL, "b">>
  /\ chk.chunkSize = 3 /\ chk.overlap = 2
  /\ Len(chk.out) = 2
  /\ chk.out[1].text = <<"a", " ", "b">>
  /\ chk.out[2].text = <<"b", NL, NL, "b">>
  /\ chk.sealed[2] = <<" ", "b", NL, NL, "b">>

\* C25: in splitTextIntoChunks the start index strictly increases from one
\* iteration of the loop to the next, no range of the text is pushed as a
\* chunk twice, and no chunk is pushed after a chunk that ends at the end of
\* the text.
C25_StartIndexIncreases ==
  /\ [][spl.pc = "loop" /\ spl'.pc = "loop" => spl'.startIndex > spl.startIndex]_vars
  /\ [](\A i, j \in 1..Len(spl.ranges) : i # j => spl.ranges[i] # spl.ranges[j])
  /\ [](\A i \in 1..(Len(spl.ranges) - 1) : spl.ranges[i][2] < Len(spl.cleanText))

\* C26: splitTextIntoChunks terminates without throwing for every text and
\* every chunkSize and overlap with 0 <= overlap < chunkSize: no call
\* throws, and every iteration that is followed by another one has pushed a
\* chunk or moved the start index forward (the chunks and the start index are
\* bounded by the text, so the loop ends).
C26_TerminatesWithoutThrowing ==
  /\ [](spl.pc # "thrown")
  /\ [][spl.pc = "loop" /\ spl'.pc = "loop" =>
          \/ Len(spl'.chunks) > Len(spl.chunks)
          \/ spl'.startIndex > spl.startIndex]_vars

\* C23: the k-th chunk emitted for one document has the id chunk_k, for
\* createChunks and for page-aware ingestion across all pages; in page-aware
\* ingestion every chunk carries the number of a page of the document and
\* its text is taken from the cleaned text of that page alone.
C23_SequentialIdsAndPages ==
  /\ chk.pc = "done" =>
       \A k \in 1..Len(chk.out) : chk.out[k].id = <<"chunk_", k>>
  /\ pag.pc = "done" =>
       /\ \A k \in 1..Len(pag.out) : pag.out[k].chunkId = <<"chunk_", k>>
       /\ \A k \in 1..Len(pag.out) :
            \E p \in 1..Len(pag.pages) :
              /\ pag.out[k].pageNumber = [num |-> pag.pages[p].pageNumber]
              /\ IsSubstringOf(pag.out[k].text, CleanText(pag.pages[p].text))
              /\ \A j \in 1..Len(pag.out[k].text) :
                   pag.out[k].text[j] \in {PageLetter(p), " ", "."}
       /\ \A j, k \in 1..Len(pag.out) :
            j < k => pag.out[j].pageNumber.num <= pag.out[k].pageNumber.num

\* two pages that yield two chunks each
C23_Witness ==
  /\ pag.pc = "done"
  /\ Len(pag.pages) = 2
  /\ Len(pag.out) = 4
  /\ pag.out[2].pageNumber = [num |-> 1] /\ pag.out[2].text = <<"a", "a">>
  /\ pag.out[3].pageNumber = [num |-> 2] /\ pag.out[3].chunkId = <<"chunk_", 3>>
  /\ pag.out[3].text = <<"b", "b", "b", "b">>

\* C27: whenever no upload and no load is in progress, currentPDFInfo is
\* non-null exactly when the vector store is non-empty, and then
\* currentPDFInfo.numChunks is vectorStore.size().
C27_InfoIffStoreNonEmpty ==
  up.pc = "idle" /\ ld.pc = "done" =>
    /\ (currentPDFInfo # Null) <=> ~IsEmpty(documents)
    /\ currentPDFInfo # Null => currentPDFInfo.numChunks = Size(documents)

\* C30: the load started by the constructor never overwrites a generation
\* installed by addDocuments: once addDocuments(chunks, embeddings) has
\* returned for an upload, the store holds those chunks and embeddings (no
\* other addDocuments or clear runs before the upload is answered).
C30_LoadNeverOverwrites ==
  up.pc = "unlink" \/ (up.pc = "done" /\ up.resp = "ok200")
    => documents = up.chunks /\ embeddings = up.embs

\* the number of times word occurs in text from index pos on, occurrences
\* being counted from left to right without overlap
RECURSIVE Occurrences(_, _, _)
Occurrences(word, text, pos) ==
  IF pos + Len(word) > Len(text) THEN 0
  ELSE IF SubSeq(text, pos + 1, pos + Len(word)) = word
    THEN 1 + Occurrences(word, text, pos + Len(word))
    ELSE Occurrences(word, text, pos + 1)

\* the score C24 describes: the occurrences of the query words longer than 3
\* characters, plus 10 when the chunk contains the whole query
StatedScore(chunk, query) ==
  LET words == QueryWords(ToLowerCase(query))
      count[k \in 0..Len(words)] ==
        IF k = 0 THEN 0
        ELSE count[k - 1] + Occurrences(words[k], ToLowerCase(chunk.text), 0)
  IN count[Len(words)]
       + (IF IsSubstringOf(ToLowerCase(query), ToLowerCase(chunk.text)) THEN 10 ELSE 0)

\* C24: findRelevantChunks returns min(topK, number of chunks) chunks, each
\* with the score stated, in the order of non-increasing score, chunks of
\* equal score in document order.
C24_LexicalRetrieval ==
  lex.pc # "idle" =>
    /\ lex.pc = "done"
    /\ Len(lex.out) = Min(lex.topK, Len(lex.documentChunks))
    /\ \A r \in 1..Len(lex.out) :
         /\ lex.out[r].text = lex.documentChunks[lex.out[r].index].text
         /\ lex.out[r].score = StatedScore(lex.documentChunks[lex.out[r].index], lex.query)
    /\ \A q, r \in 1..Len(lex.out) :
         q < r => \/ lex.out[q].score > lex.out[r].score
                  \/ /\ lex.out[q].score = lex.out[r].score
                     /\ lex.out[q].index < lex.out[r].index

\* C28: between requests, currentPDFInfo is non-null only if the backend
\* isReady().
C28_InfoOnlyIfReady ==
  srv.pc = "idle" /\ srv.info # Null => IsReady(srv)

\* C29: one call of askAssistant adds the question to the thread once, makes
\* at most maxRetries + 1 run attempts and waits before each retry only.
C29_QuestionAddedOnce ==
  /\ aa.messages <= 1
  /\ aa.pc = "returned" => aa.messages = 1
  /\ aa.runs <= AssistantMaxRetries + 1
  /\ aa.retryCount <= AssistantMaxRetries

=============================================================================
